---------------------------- MODULE Spec2Model ----------------------------
(***************************************************************************)
(* A model of the nanoCAD engine (src/src/engine/nanocad.c): the line      *)
(* tokenizer, variable substitution, the unit and coordinate parsers and   *)
(* the command dispatcher, over the engine's global containers.            *)
(*                                                                         *)
(* C strings are TLA+ strings; Ch(s, i) is the character s[i-1] of the C   *)
(* code (TLA+ sequences start at 1).  A call of exit(EXIT_FAILURE) is the  *)
(* status "exit", undefined behaviour is the status "ub"; both end the     *)
(* process.                                                                *)
(***************************************************************************)
EXTENDS Integers, Sequences, FiniteSets, TLC

(***************************************************************************)
(* Program constants.                                                      *)
(***************************************************************************)
COMMAND_MAX_SIZE == 15
ARGUMENT_MAX_SIZE == 30
VARIABLE_MAX_SIZE == 15
ARGUMENT_ARRAY_MAX_SIZE == 4

TYPE_LINE == 1
TYPE_RECT == 2
TYPE_CIRCLE == 3

valid_objects == <<"line", "rect", "circle">>
nosubstitute_commands == <<"inspect">>

(***************************************************************************)
(* Characters.                                                             *)
(***************************************************************************)
\* The character s[i-1]; "" is the terminating NUL.
Ch(s, i) == IF i >= 1 /\ i <= Len(s) THEN SubSeq(s, i, i) ELSE ""

DigitChars == "0123456789"
LowerChars == "abcdefghijklmnopqrstuvwxyz"
UpperChars == "ABCDEFGHIJKLMNOPQRSTUVWXYZ"

InChars(c, set) == \E i \in 1..Len(set) : Ch(set, i) = c
IndexIn(c, set) == CHOOSE i \in 1..Len(set) : Ch(set, i) = c

IsDigit(c) == InChars(c, DigitChars)
IsLower(c) == InChars(c, LowerChars)
IsUpper(c) == InChars(c, UpperChars)
DigitVal(c) == IndexIn(c, DigitChars) - 1
\* isspace() of <ctype.h>, for the characters a line can hold.
IsSpace(c) == c = " " \/ c = "\t"

RECURSIVE Pow10(_)
Pow10(n) == IF n <= 0 THEN 1 ELSE 10 * Pow10(n - 1)

\* The decimal text of a natural number ("%lu", "%d" of a value >= 0).
RECURSIVE NatStr(_)
NatStr(n) == IF n < 10 THEN Ch(DigitChars, n + 1)
             ELSE NatStr(n \div 10) \o Ch(DigitChars, (n % 10) + 1)

\* "%ld".
IntStr(n) == IF n < 0 THEN "-" \o NatStr(-n) ELSE NatStr(n)

\* Integer division truncating toward zero, as a C cast (long)double does.
TruncDiv(a, b) == IF a >= 0 THEN a \div b ELSE -((-a) \div b)

\* Sequencing of two statements: x is computed once and F continues with
\* its value.
Then(x, F(_)) == CHOOSE r \in {F(y) : y \in {x}} : TRUE

(***************************************************************************)
(* Parsing stages of the three character scanners.                         *)
(***************************************************************************)
PARSING_START == 0
PARSING_COMMAND == 1
PARSING_ARGUMENTS == 2
PARSING_COORDX == 3
PARSING_COORDY == 4
PARSING_WIDTH == 6
PARSING_HEIGHT == 7
PARSING_NUMBER == 8
PARSING_UNIT == 9
PARSING_SET_OBJVAR == 10

(***************************************************************************)
(* atof() on a decimal text: optional sign, digits, optional point and     *)
(* digits; the scan stops at the first character that does not fit.  The   *)
(* value is mant / 10^scale, negated when neg.  (Exponents, hexadecimal,   *)
(* "inf" and "nan" are not in the inputs of this model.)                   *)
(***************************************************************************)
RECURSIVE atof_scan(_, _, _, _, _)
atof_scan(s, i, seenPoint, mant, scale) ==
    IF i > Len(s) THEN [mant |-> mant, scale |-> scale]
    ELSE LET c == Ch(s, i) IN
         IF IsDigit(c)
         THEN atof_scan(s, i + 1, seenPoint, (10 * mant) + DigitVal(c),
                        IF seenPoint THEN scale + 1 ELSE scale)
         ELSE IF c = "." /\ ~seenPoint
         THEN atof_scan(s, i + 1, TRUE, mant, scale)
         ELSE [mant |-> mant, scale |-> scale]

atof(s) ==
    LET signed == Len(s) > 0 /\ (Ch(s, 1) = "-" \/ Ch(s, 1) = "+")
        r == atof_scan(s, IF signed THEN 2 ELSE 1, FALSE, 0, 0)
    IN  [neg |-> signed /\ Ch(s, 1) = "-", mant |-> r.mant, scale |-> r.scale]

(***************************************************************************)
(* (long)(d * mult) for the double d that atof returned.  atof rounds the  *)
(* decimal text to the nearest double (53 significant bits) and the        *)
(* product is rounded to the nearest double again before the cast          *)
(* truncates it.  The two roundings only change the integer part when the  *)
(* exact product is an integer N and the rounded product falls just below  *)
(* it, which the integer arithmetic below decides: rem / den is the        *)
(* fraction that atof cut off, in units of the last place of d.            *)
(***************************************************************************)
RECURSIVE Pow2(_)
Pow2(n) == IF n <= 0 THEN 1 ELSE 2 * Pow2(n - 1)

RECURSIVE Pow2Mod(_, _)
Pow2Mod(n, den) == IF n <= 0 THEN 1 % den ELSE (2 * Pow2Mod(n - 1, den)) % den

\* mant / 10^scale in lowest decimal terms.
RECURSIVE Reduced(_, _)
Reduced(mant, scale) ==
    IF scale > 0 /\ mant % 10 = 0 THEN Reduced(mant \div 10, scale - 1)
    ELSE [mant |-> mant, scale |-> scale]

\* The binary exponent e of a positive m / den: 2^e <= m / den < 2^(e+1).
RECURSIVE BinadeUp(_, _)
BinadeUp(q, e) == IF q >= Pow2(e + 1) THEN BinadeUp(q, e + 1) ELSE e

RECURSIVE BinadeDown(_, _, _)
BinadeDown(m, den, j) ==
    IF m * Pow2(j) < den THEN BinadeDown(m, den, j + 1) ELSE -j

Binade(m, den) ==
    IF m >= den THEN BinadeUp(m \div den, 0) ELSE BinadeDown(m, den, 1)

\* The exponent E of the doubles just below a positive integer N:
\* 2^E < N <= 2^(E+1).
RECURSIVE BinadeBelow(_, _)
BinadeBelow(N, E) == IF Pow2(E + 1) < N THEN BinadeBelow(N, E + 1) ELSE E

\* Whether the double product of m / den and mult, whose exact value is the
\* integer N, is rounded to a double below N.
RoundsBelow(m, den, mult, N) ==
    \E e \in {Binade(m, den)} :
    \E rem \in {((m % den) * Pow2Mod(52 - e, den)) % den} :
        /\ rem # 0
        /\ 2 * rem < den
        /\ 2 * mult * rem > Pow2(BinadeBelow(N, -1) - e) * den

MulToLong(m, den, mult) ==
    IF m = 0 THEN 0
    ELSE IF (m * mult) % den # 0 THEN (m * mult) \div den
    ELSE IF RoundsBelow(m, den, mult, (m * mult) \div den)
    THEN ((m * mult) \div den) - 1
    ELSE (m * mult) \div den

DoubleToLong(d, mult) ==
    Then(Reduced(d.mant, d.scale),
         LAMBDA r :
             IF d.neg THEN -MulToLong(r.mant, Pow10(r.scale), mult)
             ELSE MulToLong(r.mant, Pow10(r.scale), mult))

(***************************************************************************)
(* to_base_unit: the scan of the text into strnum and unit, then the       *)
(* conversion.  unit is char[3]: its third letter puts the terminator      *)
(* outside the array; strnum is not initialised, so a text without a       *)
(* number character makes atof read an indeterminate buffer.               *)
(***************************************************************************)
IsNumberChar(c) == IsDigit(c) \/ c = "+" \/ c = "," \/ c = "-" \/ c = "."

RECURSIVE tbu_scan(_, _, _, _, _)
tbu_scan(str, i, stage, strnum, unit) ==
    IF i > Len(str)
    THEN [st |-> "ok", strnum |-> strnum, unit |-> unit, stage |-> stage]
    ELSE LET c == Ch(str, i) IN
         IF stage = PARSING_NUMBER
         THEN IF IsNumberChar(c)
              THEN tbu_scan(str, i + 1, stage, strnum \o c, unit)
              ELSE IF IsLower(c)
              THEN tbu_scan(str, i + 1, PARSING_UNIT, strnum, c)
              ELSE [st |-> "exit", strnum |-> strnum, unit |-> unit,
                    stage |-> stage]
         ELSE IF IsLower(c)
              THEN IF Len(unit) >= 2
                   THEN [st |-> "ub", strnum |-> strnum, unit |-> unit,
                         stage |-> stage]
                   ELSE tbu_scan(str, i + 1, stage, strnum, unit \o c)
              ELSE [st |-> "exit", strnum |-> strnum, unit |-> unit,
                    stage |-> stage]

\* A conversion that takes every unit as the base unit.
unit_factor_none(unit) == 1

unit_factor(unit) ==
    IF unit = "" THEN 1
    ELSE IF unit = "m" THEN 1000
    ELSE IF unit = "cm" THEN 10
    ELSE IF unit = "mm" THEN 1
    ELSE 0

to_base_unit(str) ==
    Then(tbu_scan(str, 1, PARSING_NUMBER, "", ""),
         LAMBDA r :
             IF r.st # "ok" THEN [st |-> r.st, num |-> 0]
             ELSE IF r.strnum = "" THEN [st |-> "ub", num |-> 0]
             ELSE IF unit_factor(r.unit) = 0 THEN [st |-> "exit", num |-> 0]
             ELSE [st |-> "ok",
                   num |-> Then(atof(r.strnum),
                                LAMBDA d : DoubleToLong(d, unit_factor(r.unit)))])

(***************************************************************************)
(* Coordinates.  NoBase stands for base == NULL.                           *)
(***************************************************************************)
Coord(x, y) == [x |-> x, y |-> y]
NoBase == [null |-> TRUE]
HasBase(base) == base # NoBase

\* A calc_coordinate that ignores the base: `w` and `h` arguments would be
\* taken as absolute.
calc_coordinate_absolute(oper, base, coord) ==
    [st |-> "ok", coord |-> coord]

calc_coordinate(oper, base, coord) ==
    IF oper = "w" THEN [st |-> "ok", coord |-> Coord(coord.x + base.x, base.y)]
    ELSE IF oper = "h" THEN [st |-> "ok", coord |-> Coord(base.x, coord.y + base.y)]
    ELSE [st |-> "exit", coord |-> coord]

RECURSIVE pc_scan(_, _, _, _, _, _)
pc_scan(arg, i, stage, operation, coord_x, coord_y) ==
    IF i > Len(arg)
    THEN [st |-> "ok", operation |-> operation, coord_x |-> coord_x,
          coord_y |-> coord_y]
    ELSE LET c == Ch(arg, i)
             fail(s) == [st |-> s, operation |-> operation,
                         coord_x |-> coord_x, coord_y |-> coord_y]
         IN
         IF stage = PARSING_START
         THEN IF c = "x" THEN pc_scan(arg, i + 1, PARSING_COORDX, operation,
                                      coord_x, coord_y)
              ELSE IF c = "w" THEN pc_scan(arg, i + 1, PARSING_WIDTH, c,
                                           coord_x, coord_y)
              ELSE IF c = "h" THEN pc_scan(arg, i + 1, PARSING_HEIGHT, c,
                                           coord_x, coord_y)
              ELSE fail("exit")
         ELSE IF stage = PARSING_COORDX
         THEN IF c = ";" THEN pc_scan(arg, i + 1, PARSING_ARGUMENTS, operation,
                                      coord_x, coord_y)
              ELSE pc_scan(arg, i + 1, stage, operation, coord_x \o c, coord_y)
         ELSE IF stage = PARSING_ARGUMENTS
         THEN IF c = "y" THEN pc_scan(arg, i + 1, PARSING_COORDY, operation,
                                      coord_x, coord_y)
              ELSE fail("exit")
         ELSE IF stage = PARSING_WIDTH
         THEN pc_scan(arg, i + 1, stage, operation, coord_x \o c, coord_y)
         ELSE \* PARSING_COORDY, PARSING_HEIGHT
              pc_scan(arg, i + 1, stage, operation, coord_x, coord_y \o c)

\* coord_x and coord_y start as "0" and are overwritten from their first
\* character on when the argument gives them.
parse_coordinates(arg, base) ==
    LET none == Coord(0, 0)
        text(str) == IF str = "" THEN "0" ELSE str
    IN  Then(pc_scan(arg, 1, PARSING_START, "", "", ""),
             LAMBDA r :
        IF r.st # "ok" THEN [st |-> r.st, coord |-> none]
        ELSE Then(to_base_unit(text(r.coord_x)),
                  LAMBDA tx :
            IF tx.st # "ok" THEN [st |-> tx.st, coord |-> none]
            ELSE Then(to_base_unit(text(r.coord_y)),
                      LAMBDA ty :
                IF ty.st # "ok" THEN [st |-> ty.st, coord |-> none]
                ELSE IF HasBase(base) /\ r.operation # ""
                THEN calc_coordinate(r.operation, base,
                                     Coord(tx.num, ty.num))
                ELSE [st |-> "ok", coord |-> Coord(tx.num, ty.num)])))

(***************************************************************************)
(* The engine's state, as the records the operations below read: S.objects *)
(* and so on are the global containers.  A pointer into objects.list is    *)
(* [base, idx]: base identifies the allocation objects.list pointed to     *)
(* when the pointer was taken (0: objects.list was still NULL), idx the    *)
(* element.  NULLSTR is a NULL char pointer.                               *)
(***************************************************************************)
NULLSTR == "<NULL>"
\* An element of the argument array that parse_line never stored.
UNINIT == "<uninit>"
NULLPTR == [base |-> 0, idx |-> 0]
ObjPtr(S, i) == [base |-> S.objects_base, idx |-> i]

\* Whether dereferencing p reads a live element of objects.list.
ValidObjPtr(S, p) ==
    p.base # 0 /\ p.base = S.objects_base /\ p.idx < Len(S.objects)

(***************************************************************************)
(* Layers.                                                                 *)
(***************************************************************************)
\* atoi()/strtoul(.., 10): optional sign and leading digits, 0 without.
RECURSIVE atoi_scan(_, _, _)
atoi_scan(s, i, acc) ==
    IF i <= Len(s) /\ IsDigit(Ch(s, i))
    THEN atoi_scan(s, i + 1, (10 * acc) + DigitVal(Ch(s, i)))
    ELSE acc

atoi(s) ==
    IF Len(s) > 0 /\ Ch(s, 1) = "-" THEN -atoi_scan(s, 2, 0)
    ELSE IF Len(s) > 0 /\ Ch(s, 1) = "+" THEN atoi_scan(s, 2, 0)
    ELSE atoi_scan(s, 1, 0)

ToUint8(n) == n % 256

\* str_num is char[4]: it holds arg[1..4] and is terminated only when the
\* terminator of arg is among them.
parse_layer_num(arg) ==
    IF Len(arg) >= 5 THEN [st |-> "ub", num |-> 0]
    ELSE [st |-> "ok", num |-> ToUint8(atoi(SubSeq(arg, 2, Len(arg))))]

HexLower == "abcdef"
HexUpper == "ABCDEF"

HexDigit(c) ==
    IF IsDigit(c) THEN DigitVal(c)
    ELSE IF InChars(c, HexUpper) THEN IndexIn(c, HexUpper) + 9
    ELSE IF InChars(c, HexLower) THEN IndexIn(c, HexLower) + 9
    ELSE -1

\* hex is two characters; the low digit (hex[1]) is converted first.
hex_to_dec(hex) ==
    LET lo == HexDigit(Ch(hex, 2))
        hi == HexDigit(Ch(hex, 1))
    IN  IF lo < 0 \/ hi < 0 THEN [st |-> "exit", dec |-> 0]
        ELSE [st |-> "ok", dec |-> ToUint8(lo + (hi * 16))]

\* str[0..5]; a string shorter than six characters gives its terminator
\* (no hexadecimal digit) to one of the three conversions.
parse_rgb_color(str) ==
    LET red == hex_to_dec(SubSeq(str, 1, 2))
        green == hex_to_dec(SubSeq(str, 3, 4))
        blue == hex_to_dec(SubSeq(str, 5, 6))
    IN  IF Len(str) < 6 \/ red.st # "ok" \/ green.st # "ok" \/ blue.st # "ok"
        THEN [st |-> "exit", color |-> [r |-> 0, g |-> 0, b |-> 0, alpha |-> 255]]
        ELSE [st |-> "ok",
              color |-> [r |-> red.dec, g |-> green.dec, b |-> blue.dec,
                         alpha |-> 255]]

NoLayer == [num |-> -1, name |-> NULLSTR,
            color |-> [r |-> 0, g |-> 0, b |-> 0, alpha |-> 0]]

\* The first layer numbered num, NoLayer for NULL.
get_layer(S, num) ==
    IF \E i \in 1..Len(S.layers) : S.layers[i].num = num
    THEN S.layers[CHOOSE i \in 1..Len(S.layers) :
                     /\ S.layers[i].num = num
                     /\ \A j \in 1..(i - 1) : S.layers[j].num # num]
    ELSE NoLayer

\* A set_layer without the test for layer 0.
set_layer_any(S, num, name, color) ==
    IF name = UNINIT \/ color = UNINIT THEN [st |-> "ub", S |-> S]
    ELSE Then(parse_rgb_color(color),
              LAMBDA c :
                  IF c.st # "ok" THEN [st |-> c.st, S |-> S]
                  ELSE [st |-> "ok",
                        S |-> [S EXCEPT !.layers =
                                  Append(@, [num |-> num, name |-> name,
                                             color |-> c.color])]])

set_layer(S, num, name, color) ==
    IF num = 0 /\ Len(S.layers) > 0 THEN [st |-> "exit", S |-> S]
    ELSE IF name = UNINIT \/ color = UNINIT THEN [st |-> "ub", S |-> S]
    ELSE Then(parse_rgb_color(color),
              LAMBDA c :
                  IF c.st # "ok" THEN [st |-> c.st, S |-> S]
                  ELSE [st |-> "ok",
                        S |-> [S EXCEPT !.layers =
                                  Append(@, [num |-> num, name |-> name,
                                             color |-> c.color])]])

(***************************************************************************)
(* Variables.  A variable is [type, name, value]; value is a double        *)
(* [neg, mant, scale] for '$', a coordinate for '@' and a pointer into     *)
(* objects.list for '&'.  S.last_object is the variable behind `^`; its    *)
(* type is '&' throughout.                                                 *)
(***************************************************************************)
VARIABLE_FIXED == "$"
VARIABLE_COORD == "@"
VARIABLE_OBJECT == "&"

IsLastObjectName_never(name) == FALSE

IsLastObjectName(name) == name = "^"

\* What get_variable returns: NULL, &last_object or &variables.list[i].
get_variable(S, name) ==
    IF IsLastObjectName(name)
    THEN IF S.last_object.name # NULLSTR
         THEN [kind |-> "last", i |-> 0]
         ELSE [kind |-> "null", i |-> 0]
    ELSE IF \E i \in 1..Len(S.variables) : S.variables[i].name = name
    THEN [kind |-> "var",
          i |-> CHOOSE i \in 1..Len(S.variables) :
                   /\ S.variables[i].name = name
                   /\ \A j \in 1..(i - 1) : S.variables[j].name # name]
    ELSE [kind |-> "null", i |-> 0]

VarAt(S, ref) == IF ref.kind = "last" THEN S.last_object ELSE S.variables[ref.i]

\* sscanf(value, "%zu", &obj_index): the leading digits, failing without.
ScanIndex(value) ==
    IF Len(value) > 0 /\ IsDigit(Ch(value, 1))
    THEN [ok |-> TRUE, n |-> atoi_scan(value, 1, 0)]
    ELSE [ok |-> FALSE, n |-> 0]

\* A redefinition test that makes no exception for `^`.
IsRedefinitionAlways(old_var) == TRUE

\* The redefinition test of set_variable on the variable found.
IsRedefinition(old_var) == Ch(old_var.name, 1) # "^"

set_variable(S, arg, value) ==
    IF Len(arg) = 0 \/ arg = UNINIT THEN [st |-> "ub", S |-> S]
    ELSE
    LET type == Ch(arg, 1)
        name == SubSeq(arg, 2, Len(arg))
        old == get_variable(S, name)
        isLast == IsLastObjectName(name)
        idx == ScanIndex(value)
        \* The end of the function: `^` is only named, others are appended.
        finish(T, val) ==
            IF isLast
            THEN [st |-> "ok",
                  S |-> [T EXCEPT !.last_object.name = "^"]]
            ELSE [st |-> "ok",
                  S |-> [T EXCEPT !.variables =
                            Append(@, [type |-> type, name |-> name,
                                       value |-> val])]]
    IN  IF old.kind # "null" /\ IsRedefinition(VarAt(S, old))
        THEN [st |-> "exit", S |-> S]
        ELSE IF value = UNINIT THEN [st |-> "ub", S |-> S]
        ELSE IF type = VARIABLE_FIXED THEN finish(S, atof(value))
        ELSE IF type = VARIABLE_COORD
        THEN Then(parse_coordinates(value, NoBase),
                  LAMBDA pc : IF pc.st # "ok" THEN [st |-> pc.st, S |-> S]
                              ELSE finish(S, pc.coord))
        ELSE IF type = VARIABLE_OBJECT
        THEN IF ~idx.ok THEN [st |-> "exit", S |-> S]
             ELSE IF isLast
             THEN finish([S EXCEPT !.last_object.value = ObjPtr(S, idx.n)],
                         NULLPTR)
             ELSE finish(S, ObjPtr(S, idx.n))
        ELSE [st |-> "exit", S |-> S]

(***************************************************************************)
(* variable_strval: the text a variable reference is replaced by.          *)
(***************************************************************************)
\* snprintf(strval, ARGUMENT_MAX_SIZE, ...) keeps ARGUMENT_MAX_SIZE - 1
\* characters.
Snprintf(s) ==
    IF Len(s) > ARGUMENT_MAX_SIZE - 1 THEN SubSeq(s, 1, ARGUMENT_MAX_SIZE - 1)
    ELSE s

RECURSIVE ZeroPad(_, _)
ZeroPad(s, width) == IF Len(s) >= width THEN s ELSE ZeroPad("0" \o s, width)

\* "%f" of a double: six decimals.
FixedStr(d) ==
    LET micro == IF d.scale <= 6 THEN d.mant * Pow10(6 - d.scale)
                 ELSE d.mant \div Pow10(d.scale - 6)
    IN  (IF d.neg THEN "-" ELSE "") \o NatStr(micro \div 1000000) \o "."
        \o ZeroPad(NatStr(micro % 1000000), 6)

CoordStr(c) == "x" \o IntStr(c.x) \o ";y" \o IntStr(c.y)

variable_strval(S, name, coord_index) ==
    Then(get_variable(S, name),
         LAMBDA ref :
    LET var == VarAt(S, ref)
        obj == S.objects[var.value.idx + 1]
    IN  IF ref.kind = "null" THEN [st |-> "exit", strval |-> ""]
        ELSE IF var.type = VARIABLE_FIXED
        THEN [st |-> "ok", strval |-> Snprintf(FixedStr(var.value))]
        ELSE IF var.type = VARIABLE_COORD
        THEN [st |-> "ok", strval |-> Snprintf(CoordStr(var.value))]
        ELSE IF var.type = VARIABLE_OBJECT
        THEN IF ~ValidObjPtr(S, var.value) THEN [st |-> "ub", strval |-> ""]
             ELSE IF coord_index < obj.coord_count
             THEN IF coord_index < Len(obj.coord)
                  THEN [st |-> "ok",
                        strval |-> Snprintf(CoordStr(obj.coord[coord_index + 1]))]
                  ELSE [st |-> "ub", strval |-> ""]
             ELSE [st |-> "exit", strval |-> ""]
        ELSE [st |-> "exit", strval |-> ""])

(***************************************************************************)
(* substitute_variables.  The scan does not stop where the name ends: a    *)
(* later letter, digit or `^` is still appended to var_name, and end is    *)
(* the position of the last character that is none of them.  Positions     *)
(* are those of the C code (0-based); -1 is "not found".                   *)
(***************************************************************************)
is_no_substitute_command_none(command) == FALSE

is_no_substitute_command(command) ==
    \E i \in 1..Len(nosubstitute_commands) : nosubstitute_commands[i] = command

IsSigil_dollar(c) == c = "$"
IsSigil(c) == c = "$" \/ c = "@" \/ c = "&"
IsNameChar(c) == IsLower(c) \/ IsUpper(c) \/ IsDigit(c) \/ c = "^"

RECURSIVE sv_scan(_, _, _, _, _)
sv_scan(orig, char_count, begin, end, var_name) ==
    LET c == Ch(orig, char_count + 1)
        done(st, e, idx) == [st |-> st, begin |-> begin, end |-> e,
                             index |-> idx, var_name |-> var_name,
                             char_count |-> char_count]
    IN
    IF char_count >= Len(orig) THEN done("ok", end, 0)
    ELSE IF begin < 0
    THEN sv_scan(orig, char_count + 1,
                 IF IsSigil(c) THEN char_count ELSE begin, end, var_name)
    ELSE IF IsNameChar(c)
    THEN IF Len(var_name) + 1 >= VARIABLE_MAX_SIZE
         THEN done("ub", end, 0)
         ELSE sv_scan(orig, char_count + 1, begin, end, var_name \o c)
    ELSE IF c = "["
    THEN \* orig[char_count + 1] is the index, orig[char_count + 2] the `]`.
         IF char_count + 2 > Len(orig) THEN done("ub", end, 0)
         ELSE IF Ch(orig, char_count + 3) = "]"
         THEN [st |-> "ok", begin |-> begin, end |-> char_count + 3,
               index |-> IF IsDigit(Ch(orig, char_count + 2))
                         THEN DigitVal(Ch(orig, char_count + 2))
                         ELSE 255,
               var_name |-> var_name, char_count |-> char_count + 2]
         ELSE done("exit", end, 0)
    ELSE sv_scan(orig, char_count + 1, begin, char_count, var_name)

RECURSIVE substitute_variables(_, _, _)
substitute_variables(S, command, arg) ==
    LET stop(st) == [st |-> st, arg |-> arg, sub_count |-> 0]
        end(r) == IF r.begin >= 0 /\ r.end <= 0 THEN r.char_count ELSE r.end
    IN  IF is_no_substitute_command(command) \/ command = "set"
        THEN stop("ok")
        ELSE Then(sv_scan(arg, 0, -1, -1, ""),
                  LAMBDA r :
            IF r.st # "ok" THEN stop(r.st)
            ELSE IF r.begin < 0 THEN stop("ok")
            ELSE Then(variable_strval(S, r.var_name, r.index),
                      LAMBDA v :
                IF v.st # "ok" THEN stop(v.st)
                ELSE Then(SubSeq(arg, 1, r.begin) \o v.strval
                              \o SubSeq(arg, end(r) + 1, Len(arg)),
                          LAMBDA new :
                    IF Len(new) + 1 > ARGUMENT_MAX_SIZE THEN stop("ub")
                    ELSE Then(substitute_variables(S, command, new),
                              LAMBDA rest :
                                  [st |-> rest.st, arg |-> rest.arg,
                                   sub_count |-> 1 + rest.sub_count]))))

(***************************************************************************)
(* parse_line.  The argument array of parse_command is not initialised.    *)
(* t is the scanner's state: stage, cur_cpos, argc, cur_arg, command and   *)
(* arguments.                                                              *)
(***************************************************************************)
\* chomp: every whitespace character becomes a terminator, from the end
\* of the string backwards, so the string ends at its first whitespace.
\* isspace() in the "C" locale, for the characters a line can hold here.
isspace(c) == c \in {" ", "\t", "\n", "\r"}

RECURSIVE chomp_scan(_, _)
chomp_scan(str, i) ==
    IF i > Len(str) THEN str
    ELSE IF isspace(Ch(str, i)) THEN SubSeq(str, 1, i - 1)
    ELSE chomp_scan(str, i + 1)

chomp(str) == chomp_scan(str, 1)

\* arguments[argc - 1] = strdup(cur_arg), after chomp and substitution.
StoreArgument(S, t, substitute) ==
    Then(chomp(t.cur_arg),
         LAMBDA cur_arg :
        Then(IF substitute THEN substitute_variables(S, t.command, cur_arg)
             ELSE [st |-> "ok", arg |-> cur_arg, sub_count |-> 0],
             LAMBDA sub :
                 IF sub.st # "ok" THEN [t EXCEPT !.st = sub.st]
                 ELSE IF t.argc < 1 \/ t.argc > ARGUMENT_ARRAY_MAX_SIZE
                 THEN [t EXCEPT !.st = "ub"]
                 ELSE [t EXCEPT !.arguments[t.argc] = sub.arg,
                                !.cur_cpos = 0, !.cur_arg = ""]))

\* One turn of the loop of parse_line over line[i]; rc = -1 or st # "ok"
\* ends the loop.
pl_step(S, c, t) ==
    IF t.stage = PARSING_COMMAND
    THEN IF IsSpace(c)
         THEN [t EXCEPT !.command = chomp(@), !.cur_cpos = 0,
                        !.argc = 0, !.stage = PARSING_ARGUMENTS]
         ELSE IF t.cur_cpos + 1 < COMMAND_MAX_SIZE
         THEN [t EXCEPT !.command = @ \o c, !.cur_cpos = @ + 1]
         ELSE [t EXCEPT !.rc = -1]
    ELSE IF t.stage = PARSING_ARGUMENTS
    THEN IF c = ","
         THEN Then(StoreArgument(S, t, TRUE),
                   LAMBDA stored :
                       IF stored.st = "ok" /\ t.argc = ARGUMENT_ARRAY_MAX_SIZE
                       THEN [stored EXCEPT !.rc = -1]
                       ELSE stored)
         ELSE IF IsSpace(c) THEN t
         ELSE IF c = "="
         THEN [StoreArgument(S, t, TRUE) EXCEPT !.stage = PARSING_SET_OBJVAR]
         ELSE IF t.cur_cpos + 1 < ARGUMENT_MAX_SIZE
         THEN [t EXCEPT !.argc = IF t.cur_cpos = 0 THEN @ + 1 ELSE @,
                        !.cur_arg = @ \o c, !.cur_cpos = @ + 1]
         ELSE [t EXCEPT !.argc = IF t.cur_cpos = 0 THEN @ + 1 ELSE @,
                        !.rc = -1]
    ELSE \* PARSING_SET_OBJVAR
         IF t.cur_cpos = 0
         THEN IF ~IsSpace(c) /\ c # "&" THEN [t EXCEPT !.rc = -1]
              ELSE IF c = "&"
              THEN [t EXCEPT !.cur_arg = @ \o c, !.cur_cpos = @ + 1]
              ELSE t
         ELSE IF IsSpace(c)
         THEN t   \* `break` leaves the switch, not the loop
         ELSE IF t.cur_cpos + 1 < ARGUMENT_MAX_SIZE
         THEN [t EXCEPT !.cur_arg = @ \o c, !.cur_cpos = @ + 1]
         ELSE [t EXCEPT !.st = "ub"]

\* The loop of parse_line from line[i] on: it ends at the terminator, at a
\* `#`, and where a turn returns or fails.
RECURSIVE pl_scan(_, _, _, _)
pl_scan(S, line, i, t) ==
    IF i > Len(line) \/ Ch(line, i) = "#" THEN t
    ELSE Then(pl_step(S, Ch(line, i), t),
              LAMBDA u : IF u.st = "ok" /\ u.rc = 0
                         THEN pl_scan(S, line, i + 1, u)
                         ELSE u)

\* After the loop: the argument still in cur_arg is stored and argc
\* returned.
pl_finish(S, t) ==
    LET argc == IF t.stage = PARSING_SET_OBJVAR THEN t.argc + 1
                ELSE IF t.stage = PARSING_COMMAND THEN 0
                ELSE t.argc
    IN  IF t.st # "ok" \/ t.rc = -1 THEN [t EXCEPT !.rc = -1]
        ELSE IF argc > 0
        THEN [StoreArgument(S, [t EXCEPT !.argc = argc],
                            t.stage = PARSING_ARGUMENTS) EXCEPT !.rc = argc]
        ELSE [t EXCEPT !.rc = argc]

\* The scanner's state at the return of parse_line: st, the value returned
\* in rc (argc or -1) when st = "ok", command and arguments.
parse_line(S, line) ==
    Then(pl_scan(S, line, 1,
                 [st |-> "ok", rc |-> 0, stage |-> PARSING_COMMAND,
                  cur_cpos |-> 0, argc |-> -1, cur_arg |-> "", command |-> "",
                  arguments |-> [k \in 1..ARGUMENT_ARRAY_MAX_SIZE |-> UNINIT]]),
         LAMBDA t : pl_finish(S, t))

(***************************************************************************)
(* Objects.  An object is [type, layer_num, coord_count, coord].  Only a   *)
(* line gets its coordinates: create_object leaves coord_count and coord   *)
(* of a rect or circle uninitialised, so coord_count is whatever the       *)
(* stack held (g.coord_count) and coord points to no coordinate.  g.moved  *)
(* tells whether realloc returned a new block for objects.list.            *)
(***************************************************************************)
is_obj_command(command) ==
    IF \E i \in 1..Len(valid_objects) : valid_objects[i] = command
    THEN CHOOSE i \in 1..Len(valid_objects) : valid_objects[i] = command
    ELSE -1

\* argv[k] of the C code (0-based), UNINIT outside what parse_line stored.
Argv(argv, k) == IF k >= 0 /\ k < ARGUMENT_ARRAY_MAX_SIZE THEN argv[k + 1]
                 ELSE UNINIT

\* objects.list = realloc(objects.list, ...); objects.list[count++] = obj.
AppendObject(S, obj, g) ==
    [S EXCEPT !.objects = Append(@, obj),
              !.objects_base = IF @ = 0 \/ g.moved THEN @ + 1 ELSE @]

\* The end of create_object, v being the result of the set_variable calls:
\* the optional layer argument.
co_layer(v, argc, argv) ==
    LET last == Argv(argv, argc - 1)
        opt == Argv(argv, IF Ch(last, 1) = "&" THEN argc - 2 ELSE argc - 1)
        lay == parse_layer_num(opt)
    IN  IF v.st # "ok" THEN v
        ELSE IF opt = UNINIT THEN [st |-> "ub", S |-> v.S]
        ELSE IF Ch(opt, 1) # "l" THEN v
        ELSE IF lay.st # "ok" THEN [st |-> lay.st, S |-> v.S]
        ELSE [st |-> "ok",
              S |-> [v.S EXCEPT !.objects[Len(v.S.objects)].layer_num =
                                   lay.num]]

\* create_object once the object is in objects.list (T): `^` is rebound,
\* then the variable named by a last argument `&name` is set.
co_bind(T, argc, argv) ==
    LET str_idx == NatStr(Len(T.objects) - 1)
        last == Argv(argv, argc - 1)
    IN  Then(set_variable(T, "&^", str_idx),
             LAMBDA v1 :
                 IF v1.st # "ok" THEN v1
                 ELSE IF last = UNINIT THEN [st |-> "ub", S |-> v1.S]
                 ELSE IF Ch(last, 1) = "&"
                 THEN Then(set_variable(v1.S, last, str_idx),
                           LAMBDA v2 : co_layer(v2, argc, argv))
                 ELSE co_layer(v1, argc, argv))

\* The object a rect or circle command appends.
co_other(type, g) ==
    [type |-> type, layer_num |-> 0, coord_count |-> g.coord_count,
     coord |-> <<>>]

create_object(S, type, argc, argv, g) ==
    LET a0 == Argv(argv, 0)
        a1 == Argv(argv, 1)
        line(p0, p1) == [type |-> type, layer_num |-> 0, coord_count |-> 2,
                         coord |-> <<p0, p1>>]
    IN  IF type # TYPE_LINE
        THEN co_bind(AppendObject(S, co_other(type, g), g), argc, argv)
        ELSE IF a0 = UNINIT THEN [st |-> "ub", S |-> S]
        ELSE Then(parse_coordinates(a0, NoBase),
                  LAMBDA c0 :
            IF c0.st # "ok" THEN [st |-> c0.st, S |-> S]
            ELSE IF a1 = UNINIT THEN [st |-> "ub", S |-> S]
            ELSE Then(parse_coordinates(a1, c0.coord),
                      LAMBDA c1 :
                IF c1.st # "ok" THEN [st |-> c1.st, S |-> S]
                ELSE co_bind(AppendObject(S, line(c0.coord, c1.coord), g),
                             argc, argv)))

(***************************************************************************)
(* Dimensions.                                                             *)
(***************************************************************************)
\* (long)roundl(sqrtl(n)) for n >= 0: the k with (k - 1/2)^2 <= n <
\* (k + 1/2)^2, found by bisection of lo..hi.
RECURSIVE SqrtSearch(_, _, _)
SqrtSearch(n, lo, hi) ==
    IF lo >= hi THEN lo
    ELSE LET mid == (lo + hi) \div 2
         IN  IF 4 * n < ((2 * mid) + 1) * ((2 * mid) + 1)
             THEN SqrtSearch(n, lo, mid)
             ELSE SqrtSearch(n, mid + 1, hi)

RoundSqrt(n) == SqrtSearch(n, 0, n + 1)

\* (long)nearbyintl((long double)a / b), b > 0: to nearest, ties to even.
NearbyInt(a, b) ==
    LET q == (2 * a + b) \div (2 * b)    \* floor(a / b + 1/2)
    IN  IF (2 * a + b) % (2 * b) = 0 /\ q % 2 # 0 THEN q - 1 ELSE q

\* An ordering that keeps the endpoints as they were given.
OrderedSegment_given(start, end) == <<start, end>>

\* The measured segment, ordered as the offset computation orders it.
OrderedSegment(start, end) ==
    IF start.y = end.y
    THEN IF start.x < end.x THEN <<start, end>> ELSE <<end, start>>
    ELSE IF start.x = end.x
    THEN IF start.y > end.y THEN <<start, end>> ELSE <<end, start>>
    ELSE IF start.x < end.x THEN <<start, end>> ELSE <<end, start>>

\* line_start and line_end of an offset dimension; ok is FALSE for an
\* unknown direction.
OffsetLine(start, end, dir, offset, delta) ==
    LET d0 == Ch(dir, 1)
        d1 == Ch(dir, 2)
        diag == d1 = "l" \/ d1 = "r"
        mk(p, dx, dy) == Coord(p.x + dx, p.y + dy)
        both(dx, dy) == [ok |-> TRUE, line_start |-> mk(start, dx, dy),
                         line_end |-> mk(end, dx, dy)]
    IN  IF d0 = "u"
        THEN both(IF diag THEN offset * delta.y ELSE 0, -(offset * delta.x))
        ELSE IF d0 = "d"
        THEN both(IF diag THEN -(offset * delta.y) ELSE 0, offset * delta.x)
        ELSE IF d0 = "r" THEN both(offset * delta.y, 0)
        ELSE IF d0 = "l" THEN both(-(offset * delta.y), 0)
        ELSE [ok |-> FALSE, line_start |-> start, line_end |-> end]

\* The dimension line of an offset dimension: st = "ub" where the code
\* divides by a distance of zero or reads a direction never stored.
cd_offset(start, end, dir, offset) ==
    LET seg == OrderedSegment(start, end)
        dx == seg[1].x - seg[2].x
        dy == seg[1].y - seg[2].y
        none == [ok |-> FALSE, line_start |-> start, line_end |-> end]
    IN  Then(RoundSqrt((dx * dx) + (dy * dy)),
             LAMBDA dist :
                 IF dist = 0 \/ dir = UNINIT THEN [st |-> "ub", off |-> none]
                 ELSE [st |-> "ok",
                       off |-> OffsetLine(start, end, dir, offset,
                                          Coord(NearbyInt(dx, dist),
                                                NearbyInt(dy, dist)))])

\* create_dimension once the layer and the measured coordinates are parsed:
\* the dimension line, and the append to dimensions.list.
cd_line(S, argv, is_offset, layer_num, start, end) ==
    LET a2 == Argv(argv, 2)
        a3 == Argv(argv, 3)
        stop(st) == [st |-> st, ok |-> FALSE, S |-> S]
        add(p, q) == [st |-> "ok", ok |-> TRUE,
                      S |-> [S EXCEPT !.dimensions =
                                Append(@, [layer_num |-> layer_num,
                                           start |-> start, end |-> end,
                                           line_start |-> p,
                                           line_end |-> q])]]
    IN  IF is_offset
        THEN IF a3 = UNINIT THEN stop("ub")
             ELSE Then(to_base_unit(a3),
                       LAMBDA offset :
                 IF offset.st # "ok" THEN stop(offset.st)
                 ELSE Then(cd_offset(start, end, a2, offset.num),
                           LAMBDA r :
                     IF r.st # "ok" THEN stop(r.st)
                     ELSE IF ~r.off.ok THEN [st |-> "ok", ok |-> FALSE, S |-> S]
                     ELSE add(r.off.line_start, r.off.line_end)))
        ELSE IF a2 = UNINIT THEN stop("ub")
             ELSE Then(parse_coordinates(a2, NoBase),
                       LAMBDA ls :
                 IF ls.st # "ok" THEN stop(ls.st)
                 ELSE IF a3 = UNINIT THEN stop("ub")
                 ELSE Then(parse_coordinates(a3, NoBase),
                           LAMBDA le :
                     IF le.st # "ok" THEN stop(le.st)
                     ELSE add(ls.coord, le.coord)))

create_dimension(S, argc, argv, is_offset) ==
    LET opt == Argv(argv, argc - 1)
        a0 == Argv(argv, 0)
        a1 == Argv(argv, 1)
        stop(st) == [st |-> st, ok |-> FALSE, S |-> S]
    IN  IF argc < 4 /\ argc > 5 THEN [st |-> "ok", ok |-> FALSE, S |-> S]
        ELSE IF opt = UNINIT THEN stop("ub")
        ELSE Then(IF Ch(opt, 1) = "l" THEN parse_layer_num(opt)
                  ELSE [st |-> "ok", num |-> 0],
                  LAMBDA lay :
            IF lay.st # "ok" THEN stop(lay.st)
            ELSE IF a0 = UNINIT THEN stop("ub")
            ELSE Then(parse_coordinates(a0, NoBase),
                      LAMBDA start :
                IF start.st # "ok" THEN stop(start.st)
                ELSE IF a1 = UNINIT THEN stop("ub")
                ELSE Then(parse_coordinates(a1, NoBase),
                          LAMBDA end :
                    IF end.st # "ok" THEN stop(end.st)
                    ELSE cd_line(S, argv, is_offset, lay.num, start.coord,
                                 end.coord))))

(***************************************************************************)
(* draw_dimension: the annotation line, its two marker pins and the        *)
(* position of the label, in window coordinates (y grows downwards).  The  *)
(* window is the one graphics_init(600, 450) opens, and reset_origin puts  *)
(* the origin at its lower left corner.                                    *)
(***************************************************************************)
FONT_SIZE == 20
WindowHeight == 450
reset_origin == Coord(0, WindowHeight)

\* (int)((float)FONT_SIZE * 0.2)
LabelShift == TruncDiv(FONT_SIZE * 2, 10)

draw_dimension(origin, dimen) ==
    LET pin_offset == 10
        ax == origin.x + dimen.line_start.x
        ay == origin.y - dimen.line_start.y
        bx == origin.x + dimen.line_end.x
        by == origin.y - dimen.line_end.y
        mx == origin.x + dimen.start.x
        my == origin.y - dimen.start.y
        nx == origin.x + dimen.end.x
        ny == origin.y - dimen.end.y
        \* Both lines are made to go from left to right.
        x1 == IF ax > bx THEN bx ELSE ax
        y1 == IF ax > bx THEN by ELSE ay
        x2 == IF ax > bx THEN ax ELSE bx
        y2 == IF ax > bx THEN ay ELSE by
        sx == IF mx > nx THEN nx ELSE mx
        sy == IF mx > nx THEN ny ELSE my
        ex == IF mx > nx THEN mx ELSE nx
        ey == IF mx > nx THEN my ELSE ny
        dist == RoundSqrt(((x1 - x2) * (x1 - x2)) + ((y1 - y2) * (y1 - y2)))
        dx == NearbyInt(x1 - x2, dist)
        dy == NearbyInt(y1 - y2, dist)
        pin(x, y) == [p3 |-> Coord(x + (pin_offset * dy), y - (pin_offset * dx)),
                      p4 |-> Coord(x - (pin_offset * dy), y + (pin_offset * dx))]
        \* Which end of a marker pin the label uses.
        mark(p) ==
            IF sy > y1 /\ ey > y2 THEN Coord(p.p4.x, p.p4.y - LabelShift)
            ELSE IF sy < y1 /\ ey < y2 THEN p.p3
            ELSE IF sx > x1 /\ ex > x2 THEN Coord(p.p4.x - LabelShift, p.p4.y)
            ELSE IF sx < x1 /\ ex < x2 THEN p.p4
            ELSE Coord(0, 0)
        t1 == mark(pin(x1, y1))
        t2 == mark(pin(x2, y2))
    IN  IF dist = 0
        THEN \* 0.0 / 0 is converted to int.
             [st |-> "ub"]
        ELSE [st |-> "ok",
              line |-> <<Coord(x1, y1), Coord(x2, y2)>>,
              measured |-> <<Coord(sx, sy), Coord(ex, ey)>>,
              pins |-> <<pin(x1, y1), pin(x2, y2)>>,
              text_pos |-> Coord(TruncDiv(t1.x + t2.x, 2) - origin.x,
                                 origin.y - TruncDiv(t1.y + t2.y, 2))]

(***************************************************************************)
(* inspect and the printing functions: they change nothing, but they       *)
(* dereference what they print.                                            *)
(***************************************************************************)
print_object_info(S, obj) ==
    IF obj.coord_count > Len(obj.coord) THEN "ub"
    ELSE IF get_layer(S, obj.layer_num) = NoLayer THEN "ub"
    ELSE "ok"

print_variable_info(S, var) ==
    IF var.type = VARIABLE_FIXED \/ var.type = VARIABLE_COORD
    THEN variable_strval(S, var.name, 0).st
    ELSE IF var.type = VARIABLE_OBJECT
    THEN IF ~ValidObjPtr(S, var.value) THEN "ub"
         ELSE IF print_object_info(S, S.objects[var.value.idx + 1]) # "ok"
         THEN "ub"
         ELSE IF \E i \in 0..(S.objects[var.value.idx + 1].coord_count - 1) :
                    variable_strval(S, var.name, i).st # "ok"
         THEN "ub"
         ELSE "ok"
    ELSE "ok"

inspect(S, thing) ==
    LET type == Ch(thing, 1)
        rest == SubSeq(thing, 2, Len(thing))
        ref == get_variable(S, rest)
    IN  IF thing = UNINIT \/ thing = "" THEN [st |-> "ub", ok |-> FALSE]
        ELSE IF IsSigil(type)
        THEN IF ref.kind = "null" THEN [st |-> "ok", ok |-> FALSE]
             ELSE [st |-> print_variable_info(S, VarAt(S, ref)), ok |-> TRUE]
        ELSE IF type = "l"
        THEN [st |-> "ok",
              ok |-> get_layer(S, ToUint8(atoi(rest))) # NoLayer]
        ELSE [st |-> "ok", ok |-> FALSE]

(***************************************************************************)
(* History and the dispatcher.                                             *)
(***************************************************************************)
\* An add_history_line that puts the line in front of the history.
add_history_line_front(S, line) == [S EXCEPT !.history = <<line>> \o @]

add_history_line(S, line) == [S EXCEPT !.history = Append(@, line)]

\* What parse_command does with a line: st = "ok" and the value returned
\* (ret), or the way the process ended, and the state it leaves.
\* The branches of parse_command after parse_line returned p.
pc_dispatch(S, line, g, p) ==
    LET argc == p.rc
        argv == p.arguments
        type == is_obj_command(p.command)
        done(st, ret, T) == [st |-> st, ret |-> ret, S |-> T]
        \* Cleaning up the arguments, the history line, return true.
        accept(T) == done("ok", TRUE, add_history_line(T, line))
        \* A command that changes the containers: r is [st, S].
        changed(r) == IF r.st # "ok" THEN done(r.st, FALSE, r.S)
                      ELSE accept(r.S)
    IN  IF p.st # "ok" THEN done(p.st, FALSE, S)
        ELSE IF argc < 0 THEN done("ok", FALSE, S)
        ELSE IF type > 0
        THEN Then(create_object(S, type, argc, argv, g), changed)
        ELSE IF p.command = "dimen" \/ p.command = "odimen"
        THEN Then(create_dimension(S, argc, argv, p.command = "odimen"),
                  LAMBDA dim : IF dim.st = "ok" /\ ~dim.ok
                               THEN done("ok", FALSE, S)
                               ELSE changed(dim))
        ELSE IF p.command = "set"
        THEN Then(set_variable(S, Argv(argv, 0), Argv(argv, 1)), changed)
        ELSE IF p.command = "layer"
        THEN IF Argv(argv, 0) = UNINIT THEN done("ub", FALSE, S)
             ELSE Then(set_layer(S, ToUint8(atoi(Argv(argv, 0))),
                                 Argv(argv, 1), Argv(argv, 2)), changed)
        ELSE IF p.command = "list" THEN accept(S)
        ELSE IF p.command = "inspect"
        THEN Then(inspect(S, Argv(argv, 0)),
                  LAMBDA ins : IF ins.st # "ok" THEN done(ins.st, FALSE, S)
                               ELSE IF ~ins.ok THEN done("ok", FALSE, S)
                               ELSE accept(S))
        ELSE done("ok", FALSE, S)

parse_command(S, line, g) ==
    IF Ch(line, 1) = "" \/ Ch(line, 1) = "#"
    THEN [st |-> "ok", ret |-> TRUE, S |-> add_history_line(S, line)]
    ELSE Then(parse_line(S, line), LAMBDA p : pc_dispatch(S, line, g, p))

(***************************************************************************)
(* parse_file.  The file is its text; getline returns the text up to and   *)
(* including the next newline, or what is left of a last line without      *)
(* one.  text = NULLSTR stands for a file fopen cannot open.  log lists    *)
(* the calls of parse_command the loop made, each with its outcome.        *)
(***************************************************************************)
RECURSIVE getline_end(_, _)
getline_end(text, i) ==
    IF i >= Len(text) \/ Ch(text, i) = "\n" THEN i
    ELSE getline_end(text, i + 1)

\* Remove the trailing newline.
StripNewline(line) ==
    IF Ch(line, Len(line)) = "\n" THEN SubSeq(line, 1, Len(line) - 1)
    ELSE line

pf_outcome(r) == IF r.st = "ok" THEN IF r.ret THEN "true" ELSE "false"
                 ELSE r.st

RECURSIVE pf_loop(_, _, _, _, _)
pf_loop(S, text, linenum, g, log) ==
    IF text = ""
    THEN [st |-> "ok", ret |-> TRUE, linenum |-> linenum, S |-> S, log |-> log]
    ELSE Then(getline_end(text, 1),
              LAMBDA read :
        Then(parse_command(S, StripNewline(SubSeq(text, 1, read)), g),
             LAMBDA r :
            IF r.st = "ok" /\ r.ret
            THEN pf_loop(r.S, SubSeq(text, read + 1, Len(text)), linenum + 1,
                         g, Append(log, [line |-> StripNewline(SubSeq(text, 1, read)),
                                         ret |-> "true"]))
            ELSE [st |-> r.st, ret |-> FALSE, linenum |-> linenum, S |-> r.S,
                  log |-> Append(log, [line |-> StripNewline(SubSeq(text, 1, read)),
                                       ret |-> pf_outcome(r)])]))

parse_file(S, text, g) ==
    IF text = NULLSTR
    THEN [st |-> "ok", ret |-> FALSE, linenum |-> 0, S |-> S, log |-> <<>>]
    ELSE pf_loop(S, text, 1, g, <<>>)

(***************************************************************************)
(* The session: the engine after nanocad_init, fed lines through           *)
(* parse_command one at a time.                                            *)
(*                                                                         *)
(*   objects, objects_base   objects.list and the block it points to       *)
(*   variables, last_object  variables.list and the variable behind `^`    *)
(*   layers, dimensions, history                                           *)
(*   proc     "running", or how the process ended: "exited" by             *)
(*            exit(EXIT_FAILURE), "undefined" by undefined behaviour       *)
(*   fed      the lines given to parse_command so far, each with what the  *)
(*            call did: returned TRUE or FALSE, or ended the process       *)
(*   script   which of the input alphabets the session draws lines from    *)
(*   call     the single call of the second specification                  *)
(*   host     the two threads of the threaded host and the instance they   *)
(*            share (third specification); the instance of the sequential  *)
(*            host of tests/example.c (fourth specification)               *)
(***************************************************************************)
VARIABLES objects, objects_base, variables, last_object, layers, dimensions,
          history, proc, fed, script, call, host

vars == <<objects, objects_base, variables, last_object, layers, dimensions,
          history, proc, fed, script, call, host>>

containers == <<objects, objects_base, variables, last_object, layers,
                dimensions, history>>

State == [objects |-> objects, objects_base |-> objects_base,
          variables |-> variables, last_object |-> last_object,
          layers |-> layers, dimensions |-> dimensions, history |-> history]

\* The containers as nanocad_init finds them: zeroed globals.
Zeroed == [objects |-> <<>>, objects_base |-> 0, variables |-> <<>>,
           last_object |-> [type |-> VARIABLE_OBJECT, name |-> NULLSTR,
                            value |-> NULLPTR],
           layers |-> <<>>, dimensions |-> <<>>, history |-> <<>>]

nanocad_init == set_layer(Zeroed, 0, "Default", "f9f9f9").S

(***************************************************************************)
(* Bounds and inputs.  A session feeds at most MaxLines lines, all drawn   *)
(* from one of the alphabets below.                                        *)
(***************************************************************************)
MaxLines == 3

\* Objects, `^` and variable substitution.
ObjectLines ==
    { "line x0;y0, x10;y10",
      "line x1cm;y2, w5 = &a",
      "rect x0;y0, x5;y5",
      "circle x3;y3, w2",
      "set $pi, 3",
      "line x$pi;y0, x1;y1",
      "line x$pi, h2",
      "line &^[1], h3",
      "line &^[2], w1",
      "set &^, 0",
      "set $^, 1" }

\* The variable store.
VariableLines ==
    { "set $a, 1",
      "set $b, 2.5",
      "set @a, x1;y1",
      "set &^a, 0",
      "set $^a, 2",
      "set &o, 0",
      "set %a, 1",
      "line x0;y0, x1;y1 = &a",
      "line @a, w$b",
      "line x$c;y0, w1",
      "inspect $a" }

\* Layers, dimensions, history and rejected lines.
LayerLines ==
    { "",
      "# a comment",
      "layer 1, Walls, ff0000",
      "layer 1, Doors, 00FF00",
      "layer 0, Base, 000000",
      "layer 256, Wrap, 000000",
      "layer 2, Bad, gg0000",
      "list",
      "inspect l1",
      "frob x1;y1",
      "dimen x0;y0, x100;y0, x0;y10, x100;y10",
      "odimen x0;y0, x100;y0, u, 10",
      "odimen x0;y0, x100;y0, q, 10",
      "line q1;y1, x1;y1",
      "line x1in;y0, w1",
      "line x0;y0, w5, l1",
      "line a, b, c, d, e" }

Scripts == <<ObjectLines, VariableLines, LayerLines>>

\* A single call of one function of the engine: the function, its argument
\* text, its other argument where it takes one (a base coordinate, or the
\* command and the lines executed before the call), and what it returned.
NoResult == [st |-> "none"]
Call(fn, arg, base) ==
    [fn |-> fn, arg |-> arg, base |-> base, done |-> FALSE, res |-> NoResult]
NoCall == Call("none", "", NoBase)

\* The threaded host is not part of a session of the engine above.
NoHost == [repl |-> "none"]

\* What realloc and the stack may give create_object.
Garbage == [moved : BOOLEAN, coord_count : {0, 2}]
NoGarbage == [moved |-> FALSE, coord_count |-> 0]

(***************************************************************************)
(* Init: the engine right after nanocad_init.                              *)
(***************************************************************************)
Init ==
    /\ objects = nanocad_init.objects
    /\ objects_base = nanocad_init.objects_base
    /\ variables = nanocad_init.variables
    /\ last_object = nanocad_init.last_object
    /\ layers = nanocad_init.layers
    /\ dimensions = nanocad_init.dimensions
    /\ history = nanocad_init.history
    /\ proc = "running"
    /\ fed = <<>>
    /\ script \in 1..Len(Scripts)
    /\ call = NoCall
    /\ host = NoHost

(***************************************************************************)
(* One call of parse_command.  Dispatch names the branch of parse_command  *)
(* the line takes in the current state.                                    *)
(***************************************************************************)
Branch(line, p) ==
    IF Ch(line, 1) = "" \/ Ch(line, 1) = "#" THEN "blank"
    ELSE IF p.st # "ok" \/ p.rc < 0 THEN "tokenizer"
    ELSE IF is_obj_command(p.command) > 0 THEN "object"
    ELSE IF p.command \in {"dimen", "odimen", "set", "layer", "list", "inspect"}
    THEN p.command
    ELSE "unknown"

Dispatch(S, line) == Then(parse_line(S, line), LAMBDA p : Branch(line, p))

Outcome(r) == IF r.st = "ok" THEN IF r.ret THEN "true" ELSE "false"
              ELSE r.st

Feed(line, r) ==
    /\ objects' = r.S.objects
    /\ objects_base' = r.S.objects_base
    /\ variables' = r.S.variables
    /\ last_object' = r.S.last_object
    /\ layers' = r.S.layers
    /\ dimensions' = r.S.dimensions
    /\ history' = r.S.history
    /\ proc' = IF r.st = "ok" THEN "running"
               ELSE IF r.st = "exit" THEN "exited"
               ELSE "undefined"
    /\ fed' = Append(fed, [line |-> line, ret |-> Outcome(r)])
    /\ UNCHANGED script

\* The host has a next line for the engine: the process still runs and the
\* session is not over; branch is the branch of parse_command line takes.
Reads(line, branch) ==
    /\ proc = "running"
    /\ Len(fed) < MaxLines
    /\ line \in Scripts[script]
    /\ Dispatch(State, line) = branch

ParseCommand(line, g) ==
    \E r \in {parse_command(State, line, g)} :
        Feed(line, r) /\ UNCHANGED <<call, host>>

Lines == UNION {Scripts[i] : i \in 1..Len(Scripts)}

EmptyOrComment ==
    \E line \in Lines : /\ Reads(line, "blank")
                        /\ ParseCommand(line, NoGarbage)
RejectedLine ==
    \E line \in Lines : /\ Reads(line, "tokenizer")
                        /\ ParseCommand(line, NoGarbage)
ObjectCommand ==
    \E line \in Lines, g \in Garbage : /\ Reads(line, "object")
                                       /\ ParseCommand(line, g)
DimenCommand ==
    \E line \in Lines : /\ Reads(line, "dimen")
                        /\ ParseCommand(line, NoGarbage)
OdimenCommand ==
    \E line \in Lines : /\ Reads(line, "odimen")
                        /\ ParseCommand(line, NoGarbage)
SetCommand ==
    \E line \in Lines : /\ Reads(line, "set")
                        /\ ParseCommand(line, NoGarbage)
LayerCommand ==
    \E line \in Lines : /\ Reads(line, "layer")
                        /\ ParseCommand(line, NoGarbage)
ListCommand ==
    \E line \in Lines : /\ Reads(line, "list")
                        /\ ParseCommand(line, NoGarbage)
InspectCommand ==
    \E line \in Lines : /\ Reads(line, "inspect")
                        /\ ParseCommand(line, NoGarbage)
UnknownCommand ==
    \E line \in Lines : /\ Reads(line, "unknown")
                        /\ ParseCommand(line, NoGarbage)

Next ==
    \/ EmptyOrComment
    \/ RejectedLine
    \/ ObjectCommand
    \/ DimenCommand
    \/ OdimenCommand
    \/ SetCommand
    \/ LayerCommand
    \/ ListCommand
    \/ InspectCommand
    \/ UnknownCommand

Spec == Init /\ [][Next]_vars

(***************************************************************************)
(* Single calls.  The second specification applies one function of the     *)
(* engine to one input, in the engine as nanocad_init leaves it.  Init     *)
(* draws the input; the action of the function stores what it returned.    *)
(***************************************************************************)
\* Number texts and units for to_base_unit.
NumberTexts ==
    {"0", "5", "30", "150", "1.5", "32.3", "3230", "32300", "2.01", "201",
     "0.1", "-4", "+7", "1,5", "1.5.2", ""}
UnitTexts == {"", "mm", "cm", "m", "in", "k", "mmm", "cmm"}
OddLengths == {"5 m", "5m5", "5M", "1e3", "5c.m", "x5"}

LengthTexts == {n \o u : n \in NumberTexts, u \in UnitTexts} \cup OddLengths

\* Arguments and bases for parse_coordinates.
CoordTexts == {"5", "5cm", "1.5m", "-3", "30mm"}
AbsoluteArgs == {"x" \o a \o ";y" \o b : a, b \in CoordTexts}
WidthArgs == {"w" \o v : v \in CoordTexts}
HeightArgs == {"h" \o v : v \in CoordTexts}
OddArgs == {"", "x5", "x5;", "x5;y", "x5;z1", "q1;y1", "5;y1", "w", "y5",
            "x1in;y0", "w5;y1"}
CoordArgs == AbsoluteArgs \cup WidthArgs \cup HeightArgs \cup OddArgs
Bases == {NoBase, Coord(10, 20), Coord(-3, 7)}

\* Offset dimensions: measured endpoints, direction and offset.
PointTexts == {"x0;y0", "x100;y0", "x0;y100", "x100;y100", "x100;y50"}
Directions == {"u", "d", "l", "r", "ul", "ur", "dl", "dr"}
OffsetTexts == {"0", "10", "25"}

OdimenLine(p, q, dir, off) ==
    "odimen " \o p \o ", " \o q \o ", " \o dir \o ", " \o off

OdimenLines ==
    {OdimenLine(p, q, dir, off) :
        p \in PointTexts, q \in PointTexts, dir \in Directions,
        off \in OffsetTexts}

\* Dimension commands with zero to six arguments.
FewArguments ==
    {"dimen", "dimen x0;y0", "dimen x0;y0, x9;y0",
     "dimen x0;y0, x9;y0, x0;y9", "odimen x0;y0",
     "odimen x0;y0, x9;y0, u"}
ManyArguments ==
    {"dimen x0;y0, x9;y0, x0;y9, x9;y9, l0, l1",
     "odimen x0;y0, x9;y0, u, 5, l0, l1"}
ArgumentCountLines ==
    FewArguments \cup ManyArguments
        \cup {"dimen x0;y0, x9;y0, x0;y9, x9;y9",
              "dimen x0;y0, x9;y0, x0;y9, x9;y9, l0",
              "odimen x0;y0, x9;y0, u, 5, l0"}

\* Lines at and over the limits of parse_line: a command of 14 and of 15
\* characters, an argument of 29 and of 30, four and five arguments, a
\* binding after one and after four arguments, a binding name of 29 and of
\* 30 characters, and a line that starts with a separator.
WithinLimits ==
    {"abcdefghijklmn x1;y1",
     "line x111111111111111111111111;y12",
     "line x0;y0, w1, l0, l1",
     "line x0;y0, w1 = &v",
     "line x0=&vvvvvvvvvvvvvvvvvvvvvvvvvvvv"}
OverLimits ==
    {"abcdefghijklmno x1;y1",
     "line x1111111111111111111111111;y12",
     "line x0;y0, w1, l0, l1, l2",
     "line x0;y0, w1, l0, l1 = &v"}
OutsideArray ==
    {"line , x1;y1",
     "line = &v",
     "line x0;y0, w1, l0, l1 = &v"}
OutsideBuffer ==
    {"line x0=&vvvvvvvvvvvvvvvvvvvvvvvvvvvvv"}

LimitLines == WithinLimits \cup OverLimits \cup OutsideArray \cup OutsideBuffer

\* Lines for the separators of parse_line: bindings with and without text
\* after the name, and arguments ended by a comma that the rest of the line
\* follows with nothing, with another separator or with a comment.
BindingLines ==
    {"cmd a, b = &v", "cmd a, b =  &v  ", "cmd a, b = &v x",
     "cmd a, b = &v x y", "cmd a, b = v", "cmd a, b = $v"}
SeparatorLines ==
    {"cmd a, b", "cmd a,, b", "cmd a, b,", "cmd a, # c", "cmd a, = &v",
     "cmd a, b, = &v", "cmd a , b , c"}

\* Lines without a command: empty, blank, and comments with and without
\* blanks before the `#`.
BlankLines == {"", "#", "# c", "#line x0;y0, w1", "  # c", "\t# c", "   ", " "}

\* Lines whose keyword is no command, with and without variable references.
UnknownLines ==
    {"frob", "frob x1;y1", "frob a = &v", "draw x0;y0, w1", "frob $x",
     "frob @p, 2", "frob &o", "Line x0;y0, w1"}

CommandLines == BlankLines \cup UnknownLines

\* Files of up to MaxFileLines lines; the last line of a file may lack its
\* newline.
MaxFileLines == 3

FileLines ==
    {"line x0;y0, w1", "set $a, 1", "layer 1, W, ff0000",
     "odimen x0;y0, x9;y0, u, 5", "# c", "frob", "line x1in;y0, w1"}

FileSeqs == UNION {[1..n -> FileLines] : n \in 0..MaxFileLines}

RECURSIVE FileText(_, _)
FileText(lines, i) ==
    IF i > Len(lines) THEN ""
    ELSE lines[i] \o "\n" \o FileText(lines, i + 1)

Files ==
    {FileText(lines, 1) : lines \in FileSeqs}
        \cup {"set $a, 1\nfrob", "set $a, 1\nline x0;y0, w1", NULLSTR}

\* The lines a call may be preceded by: none, or the ones that define a
\* Fixed, a Coord and an ObjectRef variable.
NoSetup == ""
DefiningLines == "set $a, 1\nset @p, x1;y2\nline x0;y0, w1 = &o"
Setups == {NoSetup, DefiningLines}
Session(setup, command) == [setup |-> setup, command |-> command]
Prepared(c, g) ==
    IF "setup" \in DOMAIN c.base /\ c.base.setup # NoSetup
    THEN parse_file(nanocad_init, c.base.setup, g).S
    ELSE nanocad_init

\* Lines that bind object variables, and references to them.
OneLine == "line x1;y2, x3;y4 = &o"
TwoLines == "line x1;y2, x3;y4 = &o\nline x5;y6, x7;y8 = &q"
OneRect == "rect x0;y0, x5;y5 = &r"
ObjectSetups == {OneLine, TwoLines, OneRect}
ObjectReferences ==
    {"&o", "&o[0]", "&o[1]", "&o[2]", "&o[9]", "&q", "&q[1]", "&r", "&r[1]",
     "&^", "&^[1]"}

\* substitute_variables: the commands and the argument texts.
SubstituteCommands == {"set", "inspect", "line"}
ReferenceTexts ==
    {"$a", "x$a;y0", "@p", "&o", "&o[1]", "&^", "$zz", "@nope", "&none",
     "w$a$a", "plain", "", "$a$;", "x1;y2345678901234567890123$a"}
\* parse_line: lines whose binding token names a variable that exists.
BoundLines ==
    {"line x0;y0, w1 = &o", "rect x1;y1, x2;y2 = &o", "frob a = &o",
     "set $b, 2 = &o", "inspect &o = &o", "line @p, w$a = &^"}

\* Object commands with and without a layer token and a binding: the line,
\* the layer number written in it (0 without one) and the name bound.
ObjectCase(line, layer, name) == [line |-> line, layer |-> layer, name |-> name]
ObjectCases ==
    {ObjectCase("line x0;y0, w1", 0, ""),
     ObjectCase("line x0;y0, w1 = &v", 0, "v"),
     ObjectCase("line x0;y0, w1, l2", 2, ""),
     ObjectCase("line x0;y0, w1, l2 = &v", 2, "v"),
     ObjectCase("rect x0;y0, x1;y1, l3 = &r", 3, "r"),
     ObjectCase("circle x0;y0, x1;y1 = &c", 0, "c"),
     ObjectCase("circle x0;y0, x1;y1, l255", 255, ""),
     ObjectCase("line x0;y0, w1, l300", 300, ""),
     ObjectCase("line x0;y0, w1, l1000 = &v", 1000, "v")}

\* Offset dimensions on the four sides of a measured line.
DrawnLines ==
    {OdimenLine(p, q, dir, "10") :
        p \in PointTexts, q \in PointTexts, dir \in {"u", "d", "l", "r"}}

CallInputs ==
    {Call("to_base_unit", t, NoBase) : t \in LengthTexts}
        \cup {Call("parse_coordinates", a, b) : a \in CoordArgs, b \in Bases}
        \cup {Call("create_dimension", line, NoBase) :
                  line \in OdimenLines \cup ArgumentCountLines}
        \cup {Call("parse_command", line, NoBase) : line \in CommandLines}
        \cup {Call("parse_file", text, NoBase) : text \in Files}
        \cup {Call("parse_line", line, NoBase) :
                  line \in LimitLines \cup BindingLines \cup SeparatorLines}
        \cup {Call("parse_line", line, Session(DefiningLines, "")) :
                  line \in BoundLines}
        \cup {Call("substitute_variables", t, Session(s, c)) :
                  t \in ReferenceTexts, s \in Setups,
                  c \in SubstituteCommands}
        \cup {Call("substitute_variables", t, Session(s, "line")) :
                  t \in ObjectReferences, s \in ObjectSetups}
        \cup {Call("create_object", c.line, Session(s, "")) :
                  c \in ObjectCases, s \in {NoSetup, OneLine}}
        \cup {Call("draw_dimension", "", Session(line, "")) :
                  line \in DrawnLines}

CallsInit ==
    /\ call \in CallInputs
    /\ \E g \in Garbage :
       \E S \in {Prepared(call, g)} :
           /\ objects = S.objects
           /\ objects_base = S.objects_base
           /\ variables = S.variables
           /\ last_object = S.last_object
           /\ layers = S.layers
           /\ dimensions = S.dimensions
           /\ history = S.history
    /\ proc = "running"
    /\ fed = <<>>
    /\ script = 1
    /\ host = NoHost

Pending(fn) == call.fn = fn /\ ~call.done
Returned(fn) == call.fn = fn /\ call.done

Return(res) ==
    /\ call' = [call EXCEPT !.done = TRUE, !.res = res]
    /\ UNCHANGED host

ToBaseUnit ==
    /\ Pending("to_base_unit")
    /\ Return(to_base_unit(call.arg))
    /\ UNCHANGED <<containers, proc, fed, script>>

ParseCoordinates ==
    /\ Pending("parse_coordinates")
    /\ Return(parse_coordinates(call.arg, call.base))
    /\ UNCHANGED <<containers, proc, fed, script>>

\* parse_command on a dimen or odimen line, which runs create_dimension.
CreateDimension ==
    /\ Pending("create_dimension")
    /\ \E r \in {parse_command(State, call.arg, NoGarbage)} :
           Feed(call.arg, r) /\ Return([st |-> Outcome(r)])

\* parse_line: what it returned and how many arguments it stored.
ParseLine ==
    /\ Pending("parse_line")
    /\ \E t \in {parse_line(State, call.arg)} :
           Return([st |-> t.st, rc |-> t.rc, command |-> t.command,
                   arguments |-> t.arguments])
    /\ UNCHANGED <<containers, proc, fed, script>>

\* parse_command on a line, rect or circle line, which runs create_object.
CreateObject ==
    /\ Pending("create_object")
    /\ \E g \in Garbage :
       \E r \in {parse_command(State, call.arg, g)} :
           Feed(call.arg, r) /\ Return([st |-> Outcome(r)])

\* substitute_variables on one argument of a command.
SubstituteVariables ==
    /\ Pending("substitute_variables")
    /\ Return(substitute_variables(State, call.base.command, call.arg))
    /\ UNCHANGED <<containers, proc, fed, script>>

\* parse_command on one line, in the engine as nanocad_init left it.
ParseOneCommand ==
    /\ Pending("parse_command")
    /\ \E r \in {parse_command(State, call.arg, NoGarbage)} :
           Feed(call.arg, r) /\ Return([st |-> Outcome(r)])

\* parse_file on one file, in the engine as nanocad_init left it.
ParseFile ==
    /\ Pending("parse_file")
    /\ \E g \in Garbage :
       \E r \in {parse_file(State, call.arg, g)} :
           /\ objects' = r.S.objects
           /\ objects_base' = r.S.objects_base
           /\ variables' = r.S.variables
           /\ last_object' = r.S.last_object
           /\ layers' = r.S.layers
           /\ dimensions' = r.S.dimensions
           /\ history' = r.S.history
           /\ proc' = IF r.st = "ok" THEN "running"
                      ELSE IF r.st = "exit" THEN "exited"
                      ELSE "undefined"
           /\ fed' = r.log
           /\ Return([st |-> pf_outcome(r), linenum |-> r.linenum])
    /\ UNCHANGED script

\* graphics_render draws the dimension the session holds.
DrawDimension ==
    /\ Pending("draw_dimension")
    /\ dimensions # <<>>
    /\ Return(draw_dimension(reset_origin, dimensions[1]))
    /\ UNCHANGED <<containers, proc, fed, script>>

CallsNext ==
    \/ ParseFile
    \/ SubstituteVariables
    \/ CreateObject
    \/ ParseOneCommand
    \/ ParseLine
    \/ ToBaseUnit
    \/ ParseCoordinates
    \/ CreateDimension
    \/ DrawDimension

Calls == CallsInit /\ [][CallsNext]_vars

(***************************************************************************)
(* The threaded host (cli/main.c).  main parses its arguments, which loads *)
(* the source file of a `-l` option, initialises the engine instance,      *)
(* creates the REPL thread and then runs the graphics event loop itself;   *)
(* both threads work on the one cad_instance.  Lisp expressions, of the    *)
(* source file and of the REPL, evaluate (line p1 p2 ...) with             *)
(* builtin_cad_line, which creates an object and appends the points to it; *)
(* the event loop calls graphics_render after every event.  The REPL       *)
(* thread ends with exit(), which runs cleanup.  engine_mutex is declared  *)
(* in main.c and is locked nowhere.                                        *)
(*                                                                         *)
(*   engine_mutex  the thread that holds it, or "none"                     *)
(*   main          where main is: "parse_args", "load" (in load_include),  *)
(*                 "init" (before engine_instance_init), "start" (before   *)
(*                 pthread_create), "graphics" (in graphics_subsystem) or  *)
(*                 "exited"                                                *)
(*   repl          where the evaluator is: "none", "readline", in          *)
(*                 builtin_cad_line at "line" (loop head), "push" (inside  *)
(*                 cvector_push_back of the object, the vector grown and   *)
(*                 the element not yet stored) or "add_coord", or in       *)
(*                 cleanup at "cleanup" and "free"                         *)
(*   read, args    expressions read so far; arguments left of this one     *)
(*   numargs       the points builtin_cad_line has counted                 *)
(*   result        what builtin_cad_line returned last                     *)
(*   entry         the objects and coordinates at the last entry of        *)
(*                 builtin_cad_line (kept for the properties only)         *)
(*   obj           index of the object being built, 0 for NULL             *)
(*   objects       the objects vector: the block it lives in (0: NULL) and *)
(*                 its size; coords holds the size of each object's coords *)
(*   graphics      where the event loop is: "none", "wait" (SDL_WaitEvent) *)
(*                 or in graphics_render at "test" (it != end) or "draw"   *)
(*   renderer      the SDL window and renderer: "none", "created" or       *)
(*                 "destroyed"                                             *)
(*   it            the iterator of graphics_render: block and index        *)
(*   defined       FALSE once a block that was freed, or the renderer      *)
(*                 after its destruction, has been used                    *)
(***************************************************************************)
MaxExpressions == 2
MaxPoints == 2

\* The arguments of a (line ...) call: pairs, or atoms of another type.
ArgLists == UNION {[1..n -> {"pair", "atom"}] : n \in 0..MaxPoints}

NullVector == [block |-> 0, size |-> 0]

\* The static variables of main.c when main starts.
HostInit ==
    [engine_mutex |-> "none", main |-> "parse_args", repl |-> "none",
     read |-> 0, args |-> <<>>, numargs |-> 0, result |-> "none",
     entry |-> [size |-> 0, coords |-> <<>>], obj |-> 0,
     objects |-> NullVector, coords |-> <<>>, graphics |-> "none",
     renderer |-> "none", it |-> [block |-> 0, idx |-> 0], defined |-> TRUE]

\* The growing step of cvector_push_back: realloc may move the vector, and
\* a NULL vector always gets a new block.
cvector_grow(vec, moved) ==
    [vec EXCEPT !.block = IF @ = 0 \/ moved THEN @ + 1 ELSE @]

ThreadsInit ==
    /\ objects = nanocad_init.objects
    /\ objects_base = nanocad_init.objects_base
    /\ variables = nanocad_init.variables
    /\ last_object = nanocad_init.last_object
    /\ layers = nanocad_init.layers
    /\ dimensions = nanocad_init.dimensions
    /\ history = nanocad_init.history
    /\ proc = "running"
    /\ fed = <<>>
    /\ script = 1
    /\ call = NoCall
    /\ host = HostInit

HostStep(h) ==
    /\ host.defined
    /\ host' = h
    /\ UNCHANGED <<containers, proc, fed, script, call>>

\* parse_args: with `-l <source>` load_include runs init_env and loads the
\* file; without it main goes on.
ParseArgs ==
    /\ host.main = "parse_args"
    /\ \E load \in BOOLEAN :
           HostStep(IF load
                    THEN [host EXCEPT !.main = "load", !.repl = "readline"]
                    ELSE [host EXCEPT !.main = "init"])

\* load_include: lisp_load_source has evaluated the file and returns.
LoadInclude ==
    /\ host.main = "load"
    /\ host.repl = "readline"
    /\ HostStep([host EXCEPT !.main = "init", !.repl = "none"])

\* engine_instance_init(&cad_instance): both vectors are set to NULL.
EngineInstanceInit ==
    /\ host.main = "init"
    /\ HostStep([host EXCEPT !.objects = NullVector, !.coords = <<>>,
                             !.main = "start"])

\* pthread_create of the REPL thread, then graphics_subsystem:
\* graphics_sdl_init and the event loop.
GraphicsSubsystem ==
    /\ host.main = "start"
    /\ HostStep([host EXCEPT !.main = "graphics", !.repl = "readline",
                             !.renderer = "created", !.graphics = "wait"])

\* An expression is read, by repl_readline or from the source file;
\* (line ...) is evaluated with its arguments.
ReplReadline ==
    /\ host.repl = "readline"
    /\ host.read < MaxExpressions
    /\ \E args \in ArgLists :
           HostStep([host EXCEPT !.read = @ + 1, !.args = args,
                                 !.numargs = 0, !.obj = 0,
                                 !.result = "none",
                                 !.entry = [size |-> host.objects.size,
                                            coords |-> host.coords],
                                 !.repl = "line"])

\* builtin_cad_line returns: an argument that is not a pair, or the end of
\* the arguments and the test of numargs.
BuiltinCadLineReturns ==
    /\ host.repl = "line"
    /\ IF host.args = <<>> THEN TRUE ELSE Head(host.args) # "pair"
    /\ HostStep([host EXCEPT !.repl = "readline",
                             !.result = IF host.args # <<>> THEN "wrong_type"
                                        ELSE IF host.numargs < 2
                                        THEN "arguments" ELSE "ok"])

\* instance_object_create up to the growth of the objects vector.
InstanceObjectCreate ==
    /\ host.repl = "line"
    /\ host.args # <<>>
    /\ Head(host.args) = "pair"
    /\ host.obj = 0
    /\ \E moved \in BOOLEAN :
           HostStep([host EXCEPT !.objects = cvector_grow(@, moved),
                                 !.repl = "push"])

\* The rest of cvector_push_back: the object is stored and the size set;
\* instance_object_create returns the address of the last element.
ObjectStored ==
    /\ host.repl = "push"
    /\ HostStep([host EXCEPT !.objects.size = @ + 1,
                             !.coords = Append(@, 0),
                             !.obj = host.objects.size + 1,
                             !.repl = "add_coord"])

\* primitive_add_coord, and the step to the next argument: one more pair
\* goes to the object that exists already.
PrimitiveAddCoord ==
    /\ host.repl = "add_coord"
    /\ HostStep([host EXCEPT !.coords[host.obj] = @ + 1,
                             !.numargs = @ + 1,
                             !.args = Tail(@),
                             !.repl = IF /\ Len(host.args) > 1
                                         /\ host.args[2] = "pair"
                                      THEN "add_coord" ELSE "line"])

\* repl: quit or the end of the input (and the quit of a loaded file);
\* exit() runs cleanup in this thread: repl_destroy and destroy_env first.
ReplQuit ==
    /\ host.repl = "readline"
    /\ HostStep([host EXCEPT !.repl = "cleanup"])

\* cleanup: graphics_sdl_clean destroys the font, the window and the
\* renderer and quits SDL.
GraphicsSdlClean ==
    /\ host.repl = "cleanup"
    /\ HostStep([host EXCEPT !.renderer = "destroyed", !.repl = "free"])

\* cleanup: engine_instance_free frees both vectors; the process ends.
EngineInstanceFree ==
    /\ host.repl = "free"
    /\ HostStep([host EXCEPT !.objects = NullVector, !.coords = <<>>,
                             !.repl = "exited", !.main = "exited"])

\* graphics_sdl_event_loop: an event arrives, the window is cleared with
\* the renderer and graphics_render starts.
GraphicsRender ==
    /\ host.main = "graphics"
    /\ host.graphics = "wait"
    /\ HostStep(IF host.renderer = "destroyed"
                THEN [host EXCEPT !.defined = FALSE]
                ELSE IF host.objects.block = 0 THEN host
                ELSE [host EXCEPT !.it = [block |-> host.objects.block,
                                          idx |-> 0],
                                  !.graphics = "test"])

\* it != cvector_end(cad_instance->objects), with the vector as it is now.
RenderTest ==
    /\ host.main = "graphics"
    /\ host.graphics = "test"
    /\ HostStep([host EXCEPT !.graphics =
                     IF host.it = [block |-> host.objects.block,
                                   idx |-> host.objects.size]
                     THEN "wait" ELSE "draw"])

\* The body of the loop reads the object at it, then ++it.
RenderObject ==
    /\ host.main = "graphics"
    /\ host.graphics = "draw"
    /\ HostStep(IF host.it.block = host.objects.block
                THEN [host EXCEPT !.it.idx = @ + 1, !.graphics = "test"]
                ELSE [host EXCEPT !.defined = FALSE])

ThreadsNext ==
    \/ ParseArgs
    \/ LoadInclude
    \/ EngineInstanceInit
    \/ GraphicsSubsystem
    \/ ReplReadline
    \/ BuiltinCadLineReturns
    \/ InstanceObjectCreate
    \/ ObjectStored
    \/ PrimitiveAddCoord
    \/ ReplQuit
    \/ GraphicsSdlClean
    \/ EngineInstanceFree
    \/ GraphicsRender
    \/ RenderTest
    \/ RenderObject

Threads == ThreadsInit /\ [][ThreadsNext]_vars

(***************************************************************************)
(* Properties.  fed records every call of parse_command: the line and      *)
(* what the call did ("true", "false", "exit" for exit(EXIT_FAILURE), "ub" *)
(* for undefined behaviour).                                               *)
(***************************************************************************)
LastFed == fed[Len(fed)]

\* The command word of a line, as parse_line finds it.
CommandOf(line) == chomp(line)

IsObjectLine(line) == is_obj_command(CommandOf(line)) > 0

\* A call that did not accept its line: it returned false or took an error
\* path of the code.
Rejected(e) == e.ret \in {"false", "exit"}

\* The lines parse_command returned true for, in the order they were fed.
AcceptedLines ==
    LET acc == SelectSeq(fed, LAMBDA e : e.ret = "true")
    IN  [i \in 1..Len(acc) |-> acc[i].line]

\* What the engine was given defines the containers while the behaviour of
\* the code is defined.
Defined == proc # "undefined"

(***************************************************************************)
(* C1: no input line terminates the host process: on every input-driven    *)
(* error parse_command returns a rejection and the session goes on.        *)
(* Stated as: the process is never ended by exit().  The code ends it in   *)
(* set_layer, set_variable, variable_strval, to_base_unit,                 *)
(* parse_coordinates and hex_to_dec.                                       *)
(***************************************************************************)
C1_NoLineTerminatesHost == proc # "exited"

(***************************************************************************)
(* C2: a rejected line leaves objects, variables, layers, dimensions,      *)
(* history and the `^` binding exactly as they were before the line.  The  *)
(* code appends the object and rebinds `^` before set_variable finds the   *)
(* name of an `= &name` binding taken.                                     *)
(***************************************************************************)
C2_RejectedLineChangesNothing ==
    [][(fed' # fed /\ Rejected(fed'[Len(fed')]))
          => UNCHANGED <<objects, variables, last_object, layers, dimensions,
                         history>>]_vars

(***************************************************************************)
(* C3: history holds exactly the accepted lines (those parse_command       *)
(* returned true for, blank and comment lines included), in input order    *)
(* and as the raw text; a rejected line adds no entry.                     *)
(***************************************************************************)
C3_HistoryIsAcceptedLines == Defined => history = AcceptedLines

\* A comment line, a rejected unknown command and an accepted command.
C3_Witness ==
    /\ proc = "running" /\ Len(fed) = 3
    /\ fed[1] = [line |-> "# a comment", ret |-> "true"]
    /\ fed[2] = [line |-> "frob x1;y1", ret |-> "false"]
    /\ fed[3] = [line |-> "layer 1, Walls, ff0000", ret |-> "true"]
    /\ history = <<"# a comment", "layer 1, Walls, ff0000">>

(***************************************************************************)
(* C4: with $pi set to 3, substituting `x$pi;y0` gives `x3.000000;y0` and  *)
(* count 1, and substituting the result again gives count 0.  The scan of  *)
(* the code goes on after the name and looks up `piy0`.                    *)
(***************************************************************************)
PiIsThree ==
    \E i \in 1..Len(variables) :
        /\ variables[i].name = "pi" /\ variables[i].type = VARIABLE_FIXED
        /\ variables[i].value = atof("3")

C4_SubstitutesNameOnly ==
    (proc = "running" /\ PiIsThree)
        => /\ substitute_variables(State, "line", "x$pi;y0")
                = [st |-> "ok", arg |-> "x3.000000;y0", sub_count |-> 1]
           /\ substitute_variables(State, "line", "x3.000000;y0")
                = [st |-> "ok", arg |-> "x3.000000;y0", sub_count |-> 0]

(***************************************************************************)
(* C5: setting a name that exists fails for every name other than exactly  *)
(* `^`, so no two entries of the variable list have the same name.  The    *)
(* code exempts every name that begins with `^`.                           *)
(***************************************************************************)
C5_VariableNamesUnique ==
    Defined => \A i, j \in 1..Len(variables) :
                   i # j => variables[i].name # variables[j].name

(***************************************************************************)
(* C6: right after a successful line, rect or circle command `^` resolves  *)
(* to the object just appended, the last element of objects.list, however  *)
(* many objects were created before; and rebinding `^` does not fail: a    *)
(* command that sets nothing but `^` succeeds whether or not `^` is bound. *)
(***************************************************************************)
PlainObjectLines ==
    {"line x0;y0, x10;y10", "rect x0;y0, x5;y5", "circle x3;y3, w2"}

C6_LastObjectAfterCreation ==
    (fed # <<>> /\ IsObjectLine(LastFed.line))
        => /\ LastFed.line \in PlainObjectLines => LastFed.ret = "true"
           /\ LastFed.ret = "true"
                => /\ objects # <<>>
                   /\ get_variable(State, "^").kind = "last"
                   /\ last_object.value = ObjPtr(State, Len(objects) - 1)
                   /\ ValidObjPtr(State, last_object.value)

\* Three consecutive creations, one of each type.
C6_Witness ==
    /\ Len(fed) = 3 /\ Len(objects) = 3
    /\ \A i \in 1..3 : fed[i].ret = "true"
    /\ {objects[i].type : i \in 1..3} = {TYPE_LINE, TYPE_RECT, TYPE_CIRCLE}
    /\ last_object.name = "^" /\ last_object.value.idx = 2

(***************************************************************************)
(* C7: in every reachable state `^` is unbound when no object has been     *)
(* created and otherwise refers to the most recently created object,       *)
(* whatever set commands were executed.  In the code `set &^, n` and       *)
(* `set $^, v` bind `^` themselves.                                        *)
(***************************************************************************)
C7_LastObjectIsMostRecent ==
    proc = "running"
        => IF objects = <<>>
           THEN get_variable(State, "^").kind = "null"
           ELSE /\ get_variable(State, "^").kind = "last"
                /\ last_object.value = ObjPtr(State, Len(objects) - 1)

(***************************************************************************)
(* C8: layer 0 exists as Default from the start; a later command for layer *)
(* 0 is not accepted and adds no layer; get_layer(0) is always the layer   *)
(* nanocad_init created, with its name and colour.  (The code refuses the  *)
(* command by ending the process, which is C1's matter.)                   *)
(***************************************************************************)
DefaultLayer ==
    [num |-> 0, name |-> "Default",
     color |-> [r |-> 249, g |-> 249, b |-> 249, alpha |-> 255]]

LayerZeroLines == {"layer 0, Base, 000000", "layer 256, Wrap, 000000"}

C9_LayerNumbersUnique ==
    Defined => \A i, j \in 1..Len(layers) :
                   i # j => layers[i].num # layers[j].num

(***************************************************************************)
(* C10: an accepted `line A, B` command appends exactly one object, of     *)
(* type line, whose coordinates are the coordinate of A and the coordinate *)
(* of B taken with that of A as its base; `line x0;y0, x10;y10` gives      *)
(* (0,0) and (10,10), and that object is the one behind `^`.               *)
(***************************************************************************)
\* The coordinates some lines must give, whatever the state they are
\* accepted in.
ExpectedCoords ==
    [line \in {"line x0;y0, x10;y10", "line x1cm;y2, w5 = &a",
               "line x0;y0, x1;y1 = &a", "line x0;y0, w5, l1",
               "line x$pi, h2"} |->
        CASE line = "line x0;y0, x10;y10" -> <<Coord(0, 0), Coord(10, 10)>>
          [] line = "line x1cm;y2, w5 = &a" -> <<Coord(10, 2), Coord(15, 2)>>
          [] line = "line x0;y0, x1;y1 = &a" -> <<Coord(0, 0), Coord(1, 1)>>
          [] line = "line x0;y0, w5, l1" -> <<Coord(0, 0), Coord(5, 0)>>
          [] OTHER -> <<Coord(3, 0), Coord(3, 2)>>]

LineAppended(line) ==
    LET argv == parse_line(State, line).arguments
        A == parse_coordinates(argv[1], NoBase).coord
        B == parse_coordinates(argv[2], A).coord
        new == objects'[Len(objects')]
    IN  /\ Len(objects') = Len(objects) + 1
        /\ SubSeq(objects', 1, Len(objects)) = objects
        /\ new.type = TYPE_LINE
        /\ new.coord_count = 2
        /\ new.coord = <<A, B>>
        /\ line \in DOMAIN ExpectedCoords => new.coord = ExpectedCoords[line]
        /\ last_object'.value = [base |-> objects_base', idx |-> Len(objects)]

C10_LineAppendsParsedCoordinates ==
    [][(fed' # fed /\ fed'[Len(fed')].ret = "true"
            /\ CommandOf(fed'[Len(fed')].line) = "line")
          => LineAppended(fed'[Len(fed')].line)]_vars

\* A line with a relative second point, then the line of the example.
C10_Witness ==
    /\ Len(fed) = 2 /\ fed[1].ret = "true" /\ fed[2].ret = "true"
    /\ fed[1].line = "line x1cm;y2, w5 = &a"
    /\ fed[2].line = "line x0;y0, x10;y10"
    /\ objects[1].coord = <<Coord(10, 2), Coord(15, 2)>>
    /\ objects[2].coord = <<Coord(0, 0), Coord(10, 10)>>
    /\ last_object.value.idx = 1

(***************************************************************************)
(* C11: an accepted `rect A, B` or `circle A, B` appends an object of that *)
(* type whose coordinate list holds exactly the two parsed points A and B  *)
(* (B relative to A).  create_object parses and stores coordinates only    *)
(* in its TYPE_LINE case: the object a rect or circle appends has the      *)
(* coord_count and coord that were on the stack.                           *)
(***************************************************************************)
ExpectedShape ==
    [line \in {"rect x0;y0, x5;y5", "circle x3;y3, w2"} |->
        IF line = "rect x0;y0, x5;y5"
        THEN [type |-> TYPE_RECT, coord |-> <<Coord(0, 0), Coord(5, 5)>>]
        ELSE [type |-> TYPE_CIRCLE, coord |-> <<Coord(3, 3), Coord(5, 3)>>]]

C11_ShapeHoldsTwoParsedPoints ==
    (fed # <<>> /\ LastFed.ret = "true" /\ LastFed.line \in DOMAIN ExpectedShape)
        => /\ objects # <<>>
           /\ objects[Len(objects)].type = ExpectedShape[LastFed.line].type
           /\ objects[Len(objects)].coord_count = 2
           /\ objects[Len(objects)].coord = ExpectedShape[LastFed.line].coord

(***************************************************************************)
(* C12: parse_coordinates maps `x<A>;y<B>` to (A, B) whatever the base,    *)
(* `w<V>` with base (bx, by) to (bx + V, by) and `h<V>` to (bx, by + V),   *)
(* each number converted with its own unit: `w5` with base (10, 20) gives  *)
(* (15, 20) and `h5` gives (10, 25).                                       *)
(***************************************************************************)
\* The lengths of CoordTexts in millimetres.
Millimetres ==
    [t \in CoordTexts |->
        IF t = "5" THEN 5
        ELSE IF t = "5cm" THEN 50
        ELSE IF t = "1.5m" THEN 1500
        ELSE IF t = "-3" THEN -3
        ELSE 30]

Gives(x, y) == call.res = [st |-> "ok", coord |-> Coord(x, y)]

C12_ParseCoordinatesForms ==
    Returned("parse_coordinates")
        => /\ \A a, b \in CoordTexts :
                  call.arg = "x" \o a \o ";y" \o b
                      => Gives(Millimetres[a], Millimetres[b])
           /\ \A v \in CoordTexts :
                  HasBase(call.base)
                      => /\ call.arg = "w" \o v
                             => Gives(call.base.x + Millimetres[v], call.base.y)
                         /\ call.arg = "h" \o v
                             => Gives(call.base.x, call.base.y + Millimetres[v])
           /\ call.base = Coord(10, 20)
                  => /\ call.arg = "w5" => Gives(15, 20)
                     /\ call.arg = "h5" => Gives(10, 25)

\* A width in centimetres added to a base.
C12_Witness ==
    /\ Returned("parse_coordinates")
    /\ call.arg = "w5cm" /\ call.base = Coord(10, 20)
    /\ Gives(60, 20)

(***************************************************************************)
(* C13: parse_coordinates rejects a relative form (`w<V>`, `h<V>`) given   *)
(* without a base, an absolute form without its `;y<NUM>` part, an empty   *)
(* argument and an unknown leading letter.  The code only refuses the      *)
(* unknown letters: a relative form without a base skips calc_coordinate   *)
(* and is taken as absolute, and a missing part is read as "0".            *)
(***************************************************************************)
MissingY == {"x5", "x5;", "x5;y"}
UnknownLetter == {"q1;y1", "5;y1", "y5"}

Malformed ==
    \/ call.base = NoBase /\ call.arg \in WidthArgs \cup HeightArgs
    \/ call.arg \in MissingY
    \/ call.arg = ""
    \/ call.arg \in UnknownLetter

C13_RejectsMalformedCoordinates ==
    (Returned("parse_coordinates") /\ Malformed) => call.res.st # "ok"

(***************************************************************************)
(* C14: to_base_unit multiplies the number by 1 (no unit, mm), 10 (cm) or  *)
(* 1000 (m) and returns the integer, so that equal lengths written in      *)
(* different units give the same integer: `150cm` and `1.5m` give 1500,    *)
(* `30mm` gives 30 and `5` gives 5.  The code multiplies the double of     *)
(* atof and truncates the product: 32.3 * 1000 is a double just below      *)
(* 32300.                                                                  *)
(***************************************************************************)
\* Lengths in millimetres, several of them written in more than one unit.
SameLength ==
    [t \in {"150cm", "1.5m", "30mm", "5", "32.3m", "3230cm", "32300mm",
            "32300", "2.01m", "201cm"} |->
        IF t \in {"150cm", "1.5m"} THEN 1500
        ELSE IF t = "30mm" THEN 30
        ELSE IF t = "5" THEN 5
        ELSE IF t \in {"2.01m", "201cm"} THEN 2010
        ELSE 32300]

C14_EqualLengthsSameInteger ==
    (Returned("to_base_unit") /\ call.arg \in DOMAIN SameLength)
        => call.res = [st |-> "ok", num |-> SameLength[call.arg]]

(***************************************************************************)
(* C15: to_base_unit yields an error and no integer for every text whose   *)
(* unit letters are not exactly mm, cm or m (longer units included), that  *)
(* contains a character that is neither a digit, a sign, the decimal point *)
(* nor a lowercase letter, or that has a non-letter after the unit         *)
(* started.  The code takes the range 0x2B..0x2E as number characters,     *)
(* which holds the comma, and writes the terminator of a three-letter unit *)
(* past the end of unit[3].                                                *)
(***************************************************************************)
BadUnit == {n \o u : n \in NumberTexts, u \in {"in", "k", "mmm", "cmm"}}
BadCharacter == {"1,5" \o u : u \in UnitTexts} \cup {"5 m", "5M"}
AfterUnit == {"5m5", "1e3", "5c.m", "x5"}

C15_InvalidLengthIsError ==
    (Returned("to_base_unit")
        /\ call.arg \in BadUnit \cup BadCharacter \cup AfterUnit)
        => call.res.st = "exit"

(***************************************************************************)
(* C16: for a horizontal measured segment, direction `u` and offset d, the *)
(* annotation line is the measured segment moved by d in +y, whichever     *)
(* endpoint is given first: (0,0)-(100,0), `u`, 10 gives (0,10)-(100,10).  *)
(* The stored measured endpoints are the parsed arguments, unchanged.      *)
(***************************************************************************)
PointAt ==
    [p \in PointTexts |->
        IF p = "x0;y0" THEN Coord(0, 0)
        ELSE IF p = "x100;y0" THEN Coord(100, 0)
        ELSE IF p = "x0;y100" THEN Coord(0, 100)
        ELSE IF p = "x100;y100" THEN Coord(100, 100)
        ELSE Coord(100, 50)]

OffsetAt == [off \in OffsetTexts |-> IF off = "0" THEN 0
                                     ELSE IF off = "10" THEN 10 ELSE 25]

\* The call appended one dimension, measured from a to b.
Measured(a, b) ==
    /\ call.res.st = "true"
    /\ Len(dimensions) = 1
    /\ dimensions[1].start = a
    /\ dimensions[1].end = b

\* The annotation line of that dimension runs from a to b.
Annotated(a, b) ==
    /\ dimensions[1].line_start = a
    /\ dimensions[1].line_end = b

Moved(c, dx, dy) == Coord(c.x + dx, c.y + dy)

C16_HorizontalUpMovesPlusY ==
    Returned("create_dimension")
        => /\ \A p, q \in PointTexts, off \in OffsetTexts :
                  (/\ call.arg = OdimenLine(p, q, "u", off)
                   /\ PointAt[p].y = PointAt[q].y
                   /\ PointAt[p].x # PointAt[q].x)
                      => /\ Measured(PointAt[p], PointAt[q])
                         /\ Annotated(Moved(PointAt[p], 0, OffsetAt[off]),
                                      Moved(PointAt[q], 0, OffsetAt[off]))
           /\ call.arg = "odimen x0;y0, x100;y0, u, 10"
                  => Annotated(Coord(0, 10), Coord(100, 10))

\* The right endpoint given first.
C16_Witness ==
    /\ Returned("create_dimension")
    /\ call.arg = "odimen x100;y0, x0;y0, u, 10"
    /\ Measured(Coord(100, 0), Coord(0, 0))
    /\ Annotated(Coord(100, 10), Coord(0, 10))

(***************************************************************************)
(* C17: for every odimen with a non-negative offset over a non-degenerate  *)
(* segment, `u` never lowers y, `d` never raises y, `r` never lowers x and *)
(* `l` never raises x; the two-letter directions satisfy both letters, so  *)
(* `ul` and `ur` differ in the sign of the x displacement.  In the code    *)
(* the x displacement is offset * delta.y with the sign of the slope, and  *)
(* `ul` and `ur` (as `dl` and `dr`) run the same assignment.               *)
(***************************************************************************)
HasLetter(dir, c) == Ch(dir, 1) = c \/ Ch(dir, 2) = c

\* The displacement of the annotation line from the measured segment.
ShiftX == dimensions[1].line_start.x - dimensions[1].start.x
ShiftY == dimensions[1].line_start.y - dimensions[1].start.y

C17_DirectionLettersKeepTheirSide ==
    Returned("create_dimension")
        => \A p, q \in PointTexts, dir \in Directions, off \in OffsetTexts :
               (call.arg = OdimenLine(p, q, dir, off) /\ PointAt[p] # PointAt[q])
                   => /\ Measured(PointAt[p], PointAt[q])
                      /\ HasLetter(dir, "u") => ShiftY >= 0
                      /\ HasLetter(dir, "d") => ShiftY <= 0
                      /\ HasLetter(dir, "r") => ShiftX >= 0
                      /\ HasLetter(dir, "l") => ShiftX <= 0

(***************************************************************************)
(* C18: the annotation line of an odimen is parallel to the measured       *)
(* segment and as long as it, at a perpendicular distance of exactly       *)
(* `offset`, for every slope and direction.  The distance is stated        *)
(* without roots: the cross product of the displacement and the segment,   *)
(* squared, is offset^2 times the squared length of the segment.  The code *)
(* rounds the unit vector of the segment to integers before it multiplies  *)
(* by the offset.                                                          *)
(***************************************************************************)
SegmentX == dimensions[1].end.x - dimensions[1].start.x
SegmentY == dimensions[1].end.y - dimensions[1].start.y

Cross == (ShiftX * SegmentY) - (ShiftY * SegmentX)

C18_AnnotationAtOffsetDistance ==
    Returned("create_dimension")
        => \A p, q \in PointTexts, dir \in Directions, off \in OffsetTexts :
               (call.arg = OdimenLine(p, q, dir, off) /\ PointAt[p] # PointAt[q])
                   => /\ Measured(PointAt[p], PointAt[q])
                      /\ dimensions[1].line_end.x - dimensions[1].line_start.x
                             = SegmentX
                      /\ dimensions[1].line_end.y - dimensions[1].line_start.y
                             = SegmentY
                      /\ Cross * Cross
                             = OffsetAt[off] * OffsetAt[off]
                                   * ((SegmentX * SegmentX) + (SegmentY * SegmentY))

(***************************************************************************)
(* C19: create_dimension accepts only 4 or 5 arguments: a dimen or odimen  *)
(* with fewer than 4 or more than 5 is rejected (parse_command returns     *)
(* false), appends no dimension and is not logged to History.  The test of *)
(* the code, (argc < 4) && (argc > 5), is never true: with fewer than 4    *)
(* arguments create_dimension reads argv entries that parse_line never     *)
(* set.                                                                    *)
(***************************************************************************)
C19_DimensionArgumentCount ==
    (Returned("create_dimension")
        /\ call.arg \in FewArguments \cup ManyArguments)
        => /\ call.res.st = "false"
           /\ dimensions = <<>>
           /\ history = <<>>

(***************************************************************************)
(* C20: parse_line returns -1 for a command longer than                    *)
(* COMMAND_MAX_SIZE - 1, an argument longer than ARGUMENT_MAX_SIZE - 1 and *)
(* more than ARGUMENT_ARRAY_MAX_SIZE arguments (the `= &var` binding       *)
(* counted as one), and never stores an argument outside the array (before *)
(* its start for a leading `,` or `=`, or past its end) nor writes past an *)
(* argument buffer.  The code stores at arguments[argc - 1] without        *)
(* looking at argc, counts the binding after the last test of the limit,   *)
(* and copies the binding name without a test of its length.               *)
(***************************************************************************)
C20_ParseLineKeepsLimits ==
    Returned("parse_line")
        => /\ call.res.st = "ok"
           /\ call.arg \in OverLimits => call.res.rc = -1
           /\ call.arg \in OutsideArray \cup OutsideBuffer => call.res.rc = -1

(***************************************************************************)
(* C21: in PARSING_SET_OBJVAR the binding token ends at the first space or *)
(* tab after the variable name: no character after that whitespace is      *)
(* added to the token, so `cmd a, b = &v x` yields the final argument      *)
(* `&v`; a first non-blank character other than `&` makes parse_line fail. *)
(* In the code the `break` at the whitespace leaves the switch and not the *)
(* loop, and the next character is appended to the token.                  *)
(***************************************************************************)
C21_BindingEndsAtWhitespace ==
    Returned("parse_line")
        => /\ call.arg \in {"cmd a, b = &v", "cmd a, b =  &v  ",
                            "cmd a, b = &v x", "cmd a, b = &v x y"}
                  => /\ call.res.st = "ok" /\ call.res.rc = 3
                     /\ call.res.arguments[3] = "&v"
           /\ call.arg \in {"cmd a, b = v", "cmd a, b = $v"}
                  => call.res.st = "ok" /\ call.res.rc = -1

(***************************************************************************)
(* C22: every argument parse_line has ended with `,` or `=` is returned    *)
(* unchanged at its own position: an empty argument, a trailing comma, a   *)
(* comment after a comma or a binding after a comma never overwrites an    *)
(* argument already stored, and the count returned is the number of        *)
(* arguments stored.  The code counts an argument at its first character   *)
(* and stores at arguments[argc - 1]: a separator that follows a separator *)
(* stores the emptied buffer over the argument before it.                  *)
(***************************************************************************)
\* The arguments of each line that a separator ended, in their positions.
EndedArguments ==
    [line \in SeparatorLines |->
        IF line \in {"cmd a,, b", "cmd a, # c", "cmd a, = &v"} THEN <<"a">>
        ELSE IF line = "cmd a, b" THEN <<"a">>
        ELSE <<"a", "b">>]

StoredArguments ==
    {k \in 1..ARGUMENT_ARRAY_MAX_SIZE : call.res.arguments[k] # UNINIT}

C22_EndedArgumentsAreKept ==
    (Returned("parse_line") /\ call.arg \in SeparatorLines)
        => /\ call.res.st = "ok"
           /\ \A k \in 1..Len(EndedArguments[call.arg]) :
                  call.res.arguments[k] = EndedArguments[call.arg][k]
           /\ call.res.rc = Cardinality(StoredArguments)

(***************************************************************************)
(* C23: every empty line and every comment-only line, a comment preceded   *)
(* only by spaces or tabs included, is accepted (parse_command returns     *)
(* true), changes no container other than History and is logged to         *)
(* History.  parse_command tests only line[0]: a line that starts with a   *)
(* blank goes to parse_line, which returns the command "" and no argument, *)
(* and is refused as an unknown command.                                   *)
(***************************************************************************)
\* Every container but History is as nanocad_init left it.
OnlyHistoryChanged ==
    /\ objects = nanocad_init.objects
    /\ variables = nanocad_init.variables
    /\ last_object = nanocad_init.last_object
    /\ layers = nanocad_init.layers
    /\ dimensions = nanocad_init.dimensions

C23_BlankAndCommentAccepted ==
    (Returned("parse_command") /\ call.arg \in BlankLines)
        => /\ call.res.st = "true"
           /\ OnlyHistoryChanged
           /\ history = <<call.arg>>

(***************************************************************************)
(* C24: a line whose keyword is no command is rejected without being       *)
(* fatal, whatever its arguments (references to undefined variables        *)
(* included): parse_command returns false, every container and History    *)
(* are unchanged and later lines are still executed.  parse_line           *)
(* substitutes the arguments before parse_command looks at the keyword,    *)
(* and variable_strval ends the process for a name it does not find.       *)
(***************************************************************************)
C24_UnknownKeywordIsNotFatal ==
    (Returned("parse_command") /\ call.arg \in UnknownLines)
        => /\ call.res.st = "false"
           /\ proc = "running"
           /\ OnlyHistoryChanged
           /\ history = <<>>

(***************************************************************************)
(* C25: parse_file executes the lines of the file in order and stops at    *)
(* the first rejected line: it returns false reporting that line's 1-based *)
(* number, no later line is executed, and the effects of all earlier lines *)
(* remain in the session.  A line the code refuses through                 *)
(* exit(EXIT_FAILURE) ends the process inside parse_command: parse_file    *)
(* returns nothing and reports no line number.                             *)
(***************************************************************************)
\* fed is the log of the calls of parse_command that parse_file made.
ExecutedInOrder(lines) ==
    /\ Len(fed) <= Len(lines)
    /\ \A i \in 1..Len(fed) : fed[i].line = lines[i]
    /\ \A i \in 1..(Len(fed) - 1) : fed[i].ret = "true"

StoppedAtRejected(lines) ==
    IF fed # <<>> /\ LastFed.ret # "true"
    THEN /\ call.res = [st |-> "false", linenum |-> Len(fed)]
         /\ history = [i \in 1..(Len(fed) - 1) |-> lines[i]]
    ELSE /\ call.res.st = "true"
         /\ Len(fed) = Len(lines)
         /\ history = lines

C25_ParseFileStopsAtFirstRejected ==
    Returned("parse_file")
        => \A lines \in FileSeqs :
               call.arg = FileText(lines, 1)
                   => ExecutedInOrder(lines) /\ StoppedAtRejected(lines)

\* C26: for `set` and `inspect`, substitute_variables returns 0 and leaves
\* the argument as it was, whether or not the variables it refers to
\* exist; and the `= &var` binding token of a line is returned as written,
\* even where the variable it names exists.
BindingToken(line) == SubSeq(line, Len(line) - 1, Len(line))
C26_NoSubstitutionForSetInspectBinding ==
    /\ Returned("substitute_variables")
           /\ call.base.command \in {"set", "inspect"}
       => call.res = [st |-> "ok", arg |-> call.arg, sub_count |-> 0]
    /\ Returned("parse_line") /\ call.arg \in BoundLines
       => /\ call.res.st = "ok"
          /\ call.res.rc \in 2..3
          /\ call.res.arguments[call.res.rc] = BindingToken(call.arg)
    /\ Returned("parse_line") /\ call.arg = "set $b, 2 = &o"
       => SubSeq(call.res.arguments, 1, 2) = <<"$b", "2">>
    /\ Returned("parse_line") /\ call.arg = "inspect &o = &o"
       => call.res.arguments[1] = "&o"
C26_Witness ==
    /\ Returned("substitute_variables")
    /\ call.base.command = "inspect"
    /\ call.arg = "&o[1]"
    /\ get_variable(State, "o").kind # "null"
    /\ call.res.sub_count = 0

\* C27: a reference to an object variable is rendered as `x<X>;y<Y>` of the
\* object's coordinate i when i is below its coordinate count (i = 0
\* without `[index]`) and fails for every other i; a Fixed variable is
\* rendered as a numeric literal and a Coord variable as `x<X>;y<Y>`.  The
\* variable holds a pointer into objects.list, which realloc may move when
\* the next object is appended, and a rect has no coordinate count.
Rendering(setup, arg) ==
    /\ Returned("substitute_variables")
    /\ call.base = Session(setup, "line")
    /\ call.arg = arg
Renders(setup, arg, text) ==
    Rendering(setup, arg)
        => call.res = [st |-> "ok", arg |-> text, sub_count |-> 1]
RenderFails(setup, arg) ==
    Rendering(setup, arg) => call.res.st = "exit"
C27_RenderVariable ==
    /\ Renders(DefiningLines, "$a", "1.000000")
    /\ Renders(DefiningLines, "@p", "x1;y2")
    /\ Renders(DefiningLines, "&o", "x0;y0")
    /\ Renders(DefiningLines, "&o[1]", "x1;y0")
    /\ \A setup \in {OneLine, TwoLines} :
           /\ Renders(setup, "&o", "x1;y2")
           /\ Renders(setup, "&o[0]", "x1;y2")
           /\ Renders(setup, "&o[1]", "x3;y4")
           /\ RenderFails(setup, "&o[2]")
           /\ RenderFails(setup, "&o[9]")
    /\ Renders(OneLine, "&^", "x1;y2")
    /\ Renders(OneLine, "&^[1]", "x3;y4")
    /\ Renders(TwoLines, "&q", "x5;y6")
    /\ Renders(TwoLines, "&q[1]", "x7;y8")
    /\ Renders(TwoLines, "&^", "x5;y6")
    /\ Renders(TwoLines, "&^[1]", "x7;y8")
    /\ \A arg \in {"&r", "&r[1]", "&^", "&^[1]"} :
           Rendering(OneRect, arg) => call.res.st \in {"ok", "exit"}

\* C28: for a line, rect or circle command, `= &name` creates an object
\* variable `name` that refers to the object just created, the same one as
\* `^`; a layer token `l<N>`, last or last before the binding, sets the
\* object's layer to N, and without one the layer is 0.  The layer number
\* is converted in a buffer of four characters and stored in eight bits.
Created(c) ==
    LET before == IF call.base.setup = OneLine THEN 1 ELSE 0
        ref == get_variable(State, c.name)
    IN  /\ call.res.st = "true"
        /\ Len(objects) = before + 1
        /\ objects[Len(objects)].layer_num = c.layer
        /\ last_object.value = ObjPtr(State, Len(objects) - 1)
        /\ c.name # "" =>
               /\ ref.kind = "var"
               /\ VarAt(State, ref).type = VARIABLE_OBJECT
               /\ VarAt(State, ref).value = last_object.value
C28_BindingAndLayerToken ==
    \A c \in ObjectCases :
        Returned("create_object") /\ call.arg = c.line => Created(c)

(***************************************************************************)
(* C29: an accepted command only appends to the container of its kind: an  *)
(* object command one object (with `^` rebound and at most one variable    *)
(* added), dimen and odimen one dimension, set one variable, layer one     *)
(* layer, list, inspect and blank lines nothing; History grows by the line *)
(* and every entry that existed stays where and what it was.  As stated,   *)
(* `set` always appends one variable; in the code a `set` of the name `^`  *)
(* is accepted, appends nothing and rewrites `^` only.                     *)
(***************************************************************************)
Extended(old, new, k) ==
    Len(new) = Len(old) + k /\ SubSeq(new, 1, Len(old)) = old
Accepted(line) ==
    /\ Len(fed') = Len(fed) + 1
    /\ fed'[Len(fed')] = [line |-> line, ret |-> "true"]
\* The first argument of line names `^`.
SetsLastObject(line) ==
    LET arg == parse_line(State, line).arguments[1]
    IN  Len(arg) = 2 /\ Ch(arg, 2) = "^"
\* sets is the number of variables a set command appends.
OnlyAppends(branch, sets) ==
    /\ Extended(history, history', 1)
    /\ Extended(objects, objects', IF branch = "object" THEN 1 ELSE 0)
    /\ Extended(dimensions, dimensions',
                IF branch \in {"dimen", "odimen"} THEN 1 ELSE 0)
    /\ Extended(layers, layers', IF branch = "layer" THEN 1 ELSE 0)
    /\ IF branch = "set" THEN Extended(variables, variables', sets)
       ELSE IF branch = "object"
       THEN \E k \in 0..1 : Extended(variables, variables', k)
       ELSE variables' = variables
C29_SetAlwaysAppends ==
    [][\A line \in Lines :
           Accepted(line) => OnlyAppends(Dispatch(State, line), 1)]_vars
C29_CommandsOnlyAppend ==
    [][\A line \in Lines :
           Accepted(line) =>
               LET branch == Dispatch(State, line)
                   last == branch = "set" /\ SetsLastObject(line)
               IN  /\ OnlyAppends(branch, IF last THEN 0 ELSE 1)
                   /\ branch # "object" /\ ~last
                          => last_object' = last_object]_vars
C29_Witness ==
    /\ Len(fed) = 2
    /\ fed[1] = [line |-> "set $pi, 3", ret |-> "true"]
    /\ fed[2] = [line |-> "set &^, 0", ret |-> "true"]
    /\ Len(variables) = 1
    /\ last_object.name = "^"

(***************************************************************************)
(* C30: in the threaded host the REPL thread's mutations of the engine     *)
(* (object creation, coordinate appends) and the graphics thread's         *)
(* traversal of the objects exclude each other, each being made with       *)
(* engine_mutex held, so that the renderer never reads the vector while it *)
(* is grown nor an object while its coordinates are appended.              *)
(***************************************************************************)
Mutating == host.main = "graphics" /\ host.repl \in {"push", "add_coord"}
Traversing == host.graphics \in {"test", "draw"}
C30_EngineMutexExcludes ==
    host # NoHost =>
        /\ Mutating => host.engine_mutex = "repl"
        /\ Traversing => host.engine_mutex = "graphics"
        /\ ~(Mutating /\ Traversing)
        /\ host.defined

(***************************************************************************)
(* C31: an object variable bound when an object was created still resolves *)
(* through `&name[k]` to the coordinates of that object after any number   *)
(* of later object creations.  `line x1cm;y2, w5 = &a` binds `a` to the    *)
(* line from (10,2) to (15,2).  The variable holds an address inside       *)
(* objects.list, which the realloc of a later creation may move.           *)
(***************************************************************************)
BoundAtCreation ==
    /\ script = 1
    /\ proc = "running"
    /\ get_variable(State, "a").kind = "var"
C31_ObjectReferenceSurvivesGrowth ==
    BoundAtCreation =>
        /\ variable_strval(State, "a", 0) = [st |-> "ok", strval |-> "x10;y2"]
        /\ variable_strval(State, "a", 1) = [st |-> "ok", strval |-> "x15;y2"]

(***************************************************************************)
(* The sequential host of tests/example.c: an instance is initialised and  *)
(* objects are created one after the other, each getting at least two      *)
(* coordinates before the next one is created.                             *)
(***************************************************************************)
MaxObjects == 257
MinCoords == 2
MaxCoords == 4

\* The id instance_object_create computes in its uint8_t local.
object_id(ids) ==
    IF ids = <<>> THEN 1 ELSE (ids[Len(ids)] + 1) % 256

\* engine_instance_init: no object yet.
ExampleHost == [ids |-> <<>>, coords |-> 0]

ExampleInit ==
    /\ objects = nanocad_init.objects
    /\ objects_base = nanocad_init.objects_base
    /\ variables = nanocad_init.variables
    /\ last_object = nanocad_init.last_object
    /\ layers = nanocad_init.layers
    /\ dimensions = nanocad_init.dimensions
    /\ history = nanocad_init.history
    /\ proc = "running"
    /\ fed = <<>>
    /\ script = 1
    /\ call = NoCall
    /\ host = ExampleHost

\* obj = instance_object_create(&instance, type): primitive_set_id stores
\* the id in the object pushed at the end of the vector.
instance_object_create ==
    /\ Len(host.ids) < MaxObjects
    /\ host.ids = <<>> \/ host.coords >= MinCoords
    /\ host' = [ids |-> Append(host.ids, object_id(host.ids)), coords |-> 0]
    /\ UNCHANGED <<containers, proc, fed, script, call>>

\* primitive_add_coord(obj, coord_create(x, y)) on the object just created.
primitive_add_coord ==
    /\ host.ids # <<>>
    /\ host.coords < MaxCoords
    /\ host' = [host EXCEPT !.coords = @ + 1]
    /\ UNCHANGED <<containers, proc, fed, script, call>>

ExampleNext ==
    \/ instance_object_create
    \/ primitive_add_coord

Example == ExampleInit /\ [][ExampleNext]_vars

(***************************************************************************)
(* C32: instance_object_create gives the first object the id 1 and every   *)
(* later object the id of the object created before it plus one, so that   *)
(* after any number of creations the ids are distinct and strictly         *)
(* increasing in creation order.                                           *)
(***************************************************************************)
C32_IdsStrictlyIncreasing ==
    "ids" \in DOMAIN host =>
        /\ host.ids # <<>> => host.ids[1] = 1
        /\ \A i \in 1..(Len(host.ids) - 1) :
               host.ids[i + 1] = host.ids[i] + 1
        /\ \A i, j \in 1..Len(host.ids) :
               i < j => host.ids[i] < host.ids[j]

(***************************************************************************)
(* C33: draw_dimension anchors the label at the midpoint of the two        *)
(* marker-pin ends, one per annotation endpoint, that lie on the side of   *)
(* the annotation line nearer the measured line, for annotation lines      *)
(* above, below, left of and right of the measured line.                   *)
(***************************************************************************)
\* On which side of the line from a to b the point p lies.
SideOf(a, b, p) ==
    ((b.x - a.x) * (p.y - a.y)) - ((b.y - a.y) * (p.x - a.x))

SameSide(u, v) == (u > 0 /\ v > 0) \/ (u < 0 /\ v < 0)

\* The measured line lies wholly on one side of the annotation line.
Beside(r) ==
    SameSide(SideOf(r.line[1], r.line[2], r.measured[1]),
             SideOf(r.line[1], r.line[2], r.measured[2]))

\* The end of a marker pin on the side of the measured line.
NearEnd(r, pin) ==
    IF SameSide(SideOf(r.line[1], r.line[2], pin.p3),
                SideOf(r.line[1], r.line[2], r.measured[1]))
    THEN pin.p3 ELSE pin.p4

\* Where draw_text puts the centre of the label, in window coordinates.
LabelAnchor(r) ==
    Coord(reset_origin.x + r.text_pos.x, reset_origin.y - r.text_pos.y)

C33_LabelAtNearPinEnds ==
    (Returned("draw_dimension") /\ call.res.st = "ok" /\ Beside(call.res))
        => /\ 2 * LabelAnchor(call.res).x =
                  NearEnd(call.res, call.res.pins[1]).x
                      + NearEnd(call.res, call.res.pins[2]).x
           /\ 2 * LabelAnchor(call.res).y =
                  NearEnd(call.res, call.res.pins[1]).y
                      + NearEnd(call.res, call.res.pins[2]).y

(***************************************************************************)
(* C34: substitute_variables terminates on every argument and every        *)
(* variable store.  The text a variable is rendered as holds no `$`, `@`   *)
(* or `&`, a rewrite replaces the text from the first sigil on, so every   *)
(* rewrite leaves fewer sigils than it found; the count returned is never  *)
(* more than the number of sigils of the original argument, and an         *)
(* argument returned by a substituting command holds no sigil.             *)
(***************************************************************************)
RECURSIVE SigilsFrom(_, _)
SigilsFrom(text, i) ==
    IF i > Len(text) THEN 0
    ELSE (IF Ch(text, i) \in {"$", "@", "&"} THEN 1 ELSE 0)
             + SigilsFrom(text, i + 1)

Sigils(text) == SigilsFrom(text, 1)

Substitutes(command) == command \notin {"set", "inspect"}

\* The first rewrite of the argument: the reference found, its rendering
\* and the argument after the rewrite.
FirstRewrite ==
    LET r == sv_scan(call.arg, 0, -1, -1, "")
        found == r.st = "ok" /\ r.begin >= 0
        v == IF found THEN variable_strval(State, r.var_name, r.index)
             ELSE [st |-> "none"]
        end == IF r.end <= 0 THEN r.char_count ELSE r.end
    IN  [made |-> found /\ v.st = "ok",
         strval |-> IF found /\ v.st = "ok" THEN v.strval ELSE "",
         arg |-> IF found /\ v.st = "ok"
                 THEN SubSeq(call.arg, 1, r.begin) \o v.strval
                          \o SubSeq(call.arg, end + 1, Len(call.arg))
                 ELSE call.arg]

C35_ObjectVariablesReferToObjects ==
    proc = "running" =>
        /\ \A i \in 1..Len(variables) :
               variables[i].type = VARIABLE_OBJECT
                   => /\ variables[i].value.idx < Len(objects)
                      /\ ValidObjPtr(State, variables[i].value)
        /\ last_object.name = "^"
               => /\ last_object.value.idx < Len(objects)
                  /\ ValidObjPtr(State, last_object.value)

(***************************************************************************)
(* C36: a (line ...) call that returns an error, for fewer than two points *)
(* or for an argument that is not a pair, leaves the engine instance       *)
(* unchanged: no object, and no partly built line with fewer than two      *)
(* coordinates, remains in the object list.                                *)
(***************************************************************************)
ReturnedError ==
    /\ host.repl = "readline"
    /\ host.result \in {"arguments", "wrong_type"}

C36_FailedLineLeavesInstance ==
    ReturnedError =>
        /\ host.objects.size = host.entry.size
        /\ host.coords = host.entry.coords
        /\ \A i \in 1..Len(host.coords) : host.coords[i] >= 2

(***************************************************************************)
(* C37: the engine instance and the graphics resources are released only   *)
(* after the graphics event loop has stopped using them: when the REPL     *)
(* thread ends, cleanup never runs while the main thread is still inside   *)
(* graphics_sdl_event_loop or graphics_render.                             *)
(***************************************************************************)
TearingDown == host.repl \in {"cleanup", "free"}
InEventLoop ==
    host.main = "graphics" /\ host.graphics \in {"wait", "test", "draw"}

C37_TeardownAfterEventLoop ==
    /\ TearingDown => ~InEventLoop
    /\ host.renderer = "destroyed" => ~InEventLoop
    /\ host.defined

(***************************************************************************)
(* C38: in the CLI host no operation that changes the engine instance runs *)
(* before engine_instance_init has completed, and the initialisation never *)
(* discards state: the objects a source file loaded with `-l` created are  *)
(* still in the instance when the REPL and the renderer start.             *)
(***************************************************************************)
BeforeInit == host.main \in {"parse_args", "load", "init"}

C38_InitBeforeMutation ==
    /\ [](BeforeInit => host.repl \notin {"push", "add_coord"})
    /\ [][host.main = "init" => host'.objects = host.objects]_vars

(***************************************************************************)
(* C39: every object and every dimension stored in the session carries a   *)
(* layer number for which get_layer returns a layer, so that inspecting an *)
(* object variable never dereferences a missing layer.                     *)
(***************************************************************************)
C39_StoredLayersExist ==
    proc = "running" =>
        /\ \A i \in 1..Len(objects) :
               get_layer(State, objects[i].layer_num) # NoLayer
        /\ \A i \in 1..Len(dimensions) :
               get_layer(State, dimensions[i].layer_num) # NoLayer

====
